---- MODULE Spec2Model ----
(***************************************************************************)
(* A model of miniscreen: the cooperative scheduler of minifutures.py      *)
(* (EventLoop, create_task, check_output, run_coroutine) together with the *)
(* child processes and pipes it multiplexes, and the screen renderer of    *)
(* miniscreen.py together with the terminal that is fed its output.        *)
(***************************************************************************)
EXTENDS Integers, Sequences, FiniteSets, TLC

(***************************************************************************)
(* Bounds of the model.                                                    *)
(***************************************************************************)
MaxProcs == 2    \* Process records spawned over one run
MaxTasks == 2    \* Task objects created over one run
MaxOut == 1      \* bytes a child writes to its stdout
MaxInput == 2    \* bytes of input a process is spawned with
PipeCap == 1     \* bytes a child's stdin pipe holds before the child reads
MaxKeys == 1     \* keystrokes typed on the keystroke descriptor
MaxCatch == 1    \* scheduler errors the root computation catches
MaxLen == 2      \* characters of the input buffer and of a line
MaxLines == 2    \* lines of a window
Height == 3      \* rows of the largest terminal

(***************************************************************************)
(* Program constants.                                                      *)
(***************************************************************************)
ReadMax == 1048576   \* os.read(fd, 2**20)
KeyFd == 0           \* next_keystroke(fd=0)
FirstFd == 3         \* 0, 1 and 2 are the standard streams
NoFd == -1           \* a descriptor field that is None
NoTask == 0          \* a task field that is None

Procs == 1..MaxProcs
Tasks == 1..MaxTasks
Fds == FirstFd..(FirstFd + 3 * MaxProcs - 1)
ExitCodes == {0, 1}

None == <<>>
Some(x) == <<x>>

Min(a, b) == IF a < b THEN a ELSE b

\* Columns of the terminal: every line fits, with a cell for the cursor after it
Width == MaxLen + 1

\* The byte string 1, 2, ..., n: distinct bytes, so that loss, duplication and
\* reordering all change the string.
Bytes(n) == [i \in 1..n |-> i]

\* b[w:]
Drop(s, w) == SubSeq(s, w + 1, Len(s))

VARIABLES
    pidfd_to_process,   \* EventLoop.pidfd_to_process, in insertion order
    readfd_to_process,  \* EventLoop.readfd_to_process, in insertion order
    writefd_to_process, \* EventLoop.writefd_to_process, in insertion order
    proc,               \* the Process records
    nprocs,             \* how many Process records exist
    coro,               \* per Task: its coro field and the coroutine's state
    ntasks,             \* how many Task objects exist
    child,              \* the child processes and their pipes
    keys,               \* keystrokes pending on the keystroke descriptor
    typed,              \* keystrokes typed so far
    stdin_eof,          \* the keystroke descriptor is at end of input
    rootpc,             \* where run_coroutine is
    fut,                \* run_coroutine's fut
    result,             \* run_coroutine's result
    first,              \* the root computation has not yet yielded
    raised,             \* the error in flight from resolve to the root
    ncaught,            \* errors the root computation caught
    event,              \* what the last step of the scheduler did
    resumed,            \* per Process: how often the exit handler resumed its task
    scope,              \* the scenario: how many tasks and processes, how much input
    screen_lines,       \* MiniScreen._screen_lines
    linebuf,            \* MiniScreen._linebuf
    cursor,             \* MiniScreen._cursor
    started,            \* start() has run
    term,               \* the terminal stdout is connected to
    out,                \* what the last call on the MiniScreen wrote to stdout
    returned,           \* what the last call on the MiniScreen returned or raised
    tty,                \* stdin's terminal attributes, and the MiniScreen's old
    session,            \* where the with block of a MiniScreen is, and its history
    decoder             \* a call of parse_one_keystroke: its input and its outcome

tables == <<pidfd_to_process, readfd_to_process, writefd_to_process>>
envvars == <<child, keys, typed, stdin_eof>>
rootvars == <<rootpc, fut, result, first, raised, ncaught>>
ghostvars == <<event, resumed>>
schedvars == <<tables, proc, nprocs, coro, ntasks, envvars, rootvars, ghostvars, scope>>
screenvars == <<screen_lines, linebuf, cursor, started, term, out, returned, tty,
                session, decoder>>
vars == <<schedvars, screenvars>>

(***************************************************************************)
(* Descriptor tables: Python dicts, which keep insertion order.            *)
(***************************************************************************)
Keys(tbl) == {tbl[i].fd : i \in 1..Len(tbl)}

Lookup(tbl, fd) == tbl[CHOOSE i \in 1..Len(tbl) : tbl[i].fd = fd].proc

\* del tbl[fd]
Del(tbl, fd) == SelectSeq(tbl, LAMBDA e : e.fd # fd)

\* tbl[fd] = p: an existing key keeps its place, a new one goes last
Put(tbl, fd, p) ==
    IF fd \in Keys(tbl)
    THEN [i \in 1..Len(tbl) |-> IF tbl[i].fd = fd THEN [fd |-> fd, proc |-> p] ELSE tbl[i]]
    ELSE Append(tbl, [fd |-> fd, proc |-> p])

(***************************************************************************)
(* Process records, child processes and descriptors.                       *)
(***************************************************************************)
\* The argument vector of the p-th process spawned: one per process, so that
\* a failure carrying another process's arguments shows
CmdOf(p) == <<"cmd", p>>

\* A Process record that does not exist yet
NoProc == [cmdline |-> <<>>, input |-> None, supplied |-> None, output |-> <<>>,
           pidfd |-> NoFd, readfd |-> NoFd, writefd |-> NoFd, task |-> NoTask]

\* The child of a Process record that does not exist yet
NoChild == [alive |-> FALSE, code |-> 0, outOpen |-> FALSE, inOpen |-> FALSE,
            pipeOut |-> <<>>, wrote |-> <<>>, inFill |-> 0, received |-> <<>>]

\* What a pass of resolve did: it serviced descriptor fd
Event(kind, fd) == [kind |-> kind, fd |-> fd]

NoEvent == Event("none", NoFd)

\* The descriptors the program holds open
OpenFds(pr) ==
    UNION {{pr[p].pidfd, pr[p].readfd, pr[p].writefd} : p \in Procs} \ {NoFd}

\* The kernel hands out the lowest descriptor number that is not open
LowestFree(open) == CHOOSE fd \in Fds \ open : \A g \in Fds \ open : fd <= g

\* check_output up to its await: Popen with a stdout pipe, a stdin pipe exactly
\* when input is not None, and a pidfd; input is None or Some(bytes)
NewProcess(pr, cmd, input) ==
    LET open == OpenFds(pr)
        wfd == IF input = None THEN NoFd ELSE LowestFree(open)
        open1 == open \cup {wfd}
        rfd == LowestFree(open1)
        pfd == LowestFree(open1 \cup {rfd})
    IN  [cmdline |-> cmd, input |-> input, supplied |-> input, output |-> <<>>,
         pidfd |-> pfd, readfd |-> rfd, writefd |-> wfd, task |-> NoTask]

\* The child that Popen starts
NewChild(input) ==
    [alive |-> TRUE, code |-> 0, outOpen |-> TRUE, inOpen |-> input # None,
     pipeOut |-> <<>>, wrote |-> <<>>, inFill |-> 0, received |-> <<>>]

\* The inputs a process is spawned with: None, or a byte string of any length
Inputs == {None} \cup {Some(Bytes(n)) : n \in 0..MaxInput}

\* The scenarios explored: many tasks and processes with little input, and one
\* task with all the input
WideScope == [tasks |-> MaxTasks, procs |-> MaxProcs, input |-> MaxInput - 1]
DeepScope == [tasks |-> 1, procs |-> MaxProcs, input |-> MaxInput]

InScope(input) == IF input = None THEN TRUE ELSE Len(input[1]) <= scope.input

(***************************************************************************)
(* Readiness, as select.select reports it.                                 *)
(***************************************************************************)
\* A pidfd is readable once the child has exited
PidReady(p) == ~child[p].alive

\* A pipe's read end is readable when it holds data or its write end is closed
ReadReady(p) == child[p].pipeOut # <<>> \/ ~child[p].outOpen

\* A pipe's write end is writable when it has room or its read end is closed
WriteReady(p) == child[p].inFill < PipeCap \/ ~child[p].inOpen

\* The keystroke descriptor is readable when a keystroke is pending or at EOF
KeyReady == keys > 0 \/ stdin_eof

ReadyPid == SelectSeq(pidfd_to_process, LAMBDA e : PidReady(e.proc))
ReadyRead == SelectSeq(readfd_to_process, LAMBDA e : ReadReady(e.proc))
ReadyWrite == SelectSeq(writefd_to_process, LAMBDA e : WriteReady(e.proc))

\* select.select returns once a descriptor it was given is ready
SelectReturns ==
    \/ ReadyPid # <<>>
    \/ ReadyRead # <<>>
    \/ ReadyWrite # <<>>
    \/ (fut.kind = "key" /\ KeyReady)

\* readfds of resolve, without the keystroke descriptor: to_read lists the
\* pidfds before the output descriptors, and select keeps that order
ReadFds == ReadyPid \o ReadyRead

(***************************************************************************)
(* Mounting a Process into the EventLoop.                                  *)
(***************************************************************************)
\* The tables after mounting record r as process p
Mount(tbls, p, r) ==
    <<Put(tbls[1], r.pidfd, p),
      Put(tbls[2], r.readfd, p),
      IF r.writefd # NoFd THEN Put(tbls[3], r.writefd, p) ELSE tbls[3]>>

(***************************************************************************)
(* The terminal that is fed the renderer's output: a grid of rows of Width *)
(* cells with autowrap off, as an ANSI/xterm terminal treats the           *)
(* control subset the renderer emits.  A row is the text up to its last    *)
(* written cell.                                                           *)
(***************************************************************************)
\* One unit of output: a control or escape sequence with its count n, or text s
Tok(op, n, s) == [op |-> op, n |-> n, s |-> s]
Ctl(op) == Tok(op, 1, <<>>)
Esc(op, n) == Tok(op, n, <<>>)
Text(s) == Tok("text", 0, s)

Max(a, b) == IF a > b THEN a ELSE b

\* A count of 0 in an escape sequence means the default, 1
Param(n) == IF n = 0 THEN 1 ELSE n

Take(s, n) == SubSeq(s, 1, Min(n, Len(s)))

Spaces(n) == [i \in 1..n |-> " "]

\* The row after text s is written from column c on, over what was there
Overwrite(row, c, s) ==
    LET padded == IF Len(row) < c THEN row \o Spaces(c - Len(row)) ELSE row
    IN  Take(Take(padded, c) \o s \o Drop(padded, c + Len(s)), Width)

BlankRows(n) == [i \in 1..n |-> <<>>]

\* The terminal after one unit of output
Feed1(t, k) ==
    LET n == Param(k.n)
        row == t.rows[t.r]
        height == Len(t.rows)
    IN  CASE k.op = "CR" -> [t EXCEPT !.c = 0]
          [] k.op = "LF" ->
                IF t.r = height
                THEN [t EXCEPT !.rows = Tail(t.rows) \o BlankRows(1)]
                ELSE [t EXCEPT !.r = t.r + 1]
          [] k.op = "BS" -> [t EXCEPT !.c = Max(0, t.c - 1)]
          [] k.op = "text" ->
                [t EXCEPT !.rows[t.r] = Overwrite(row, t.c, k.s),
                          !.c = Min(t.c + Len(k.s), Width - 1)]
          [] k.op = "CUU" -> [t EXCEPT !.r = Max(1, t.r - n)]
          [] k.op = "CUD" -> [t EXCEPT !.r = Min(height, t.r + n)]
          [] k.op = "CUF" -> [t EXCEPT !.c = Min(Width - 1, t.c + n)]
          [] k.op = "CUB" -> [t EXCEPT !.c = Max(0, t.c - n)]
          [] k.op = "EL" -> [t EXCEPT !.rows[t.r] = Take(row, t.c)]
          [] k.op = "IL" ->
                [t EXCEPT !.rows = Take(Take(t.rows, t.r - 1) \o BlankRows(n)
                                        \o Drop(t.rows, t.r - 1), height)]
          [] k.op = "DL" ->
                LET m == Min(n, height - t.r + 1)
                IN  [t EXCEPT !.rows = Take(t.rows, t.r - 1)
                                       \o Drop(t.rows, t.r - 1 + m) \o BlankRows(m)]
          [] k.op = "DCH" ->
                [t EXCEPT !.rows[t.r] = Take(row, t.c) \o Drop(row, t.c + n)]
          [] k.op = "ICH" ->
                [t EXCEPT !.rows[t.r] =
                     IF Len(row) <= t.c THEN row
                     ELSE Take(Take(row, t.c) \o Spaces(n) \o Drop(row, t.c), Width)]
          [] k.op = "autowrap" -> [t EXCEPT !.wrap = (k.n = 1)]
          [] k.op = "paste" -> [t EXCEPT !.paste = (k.n = 1)]

\* The terminal after a sequence of output
RECURSIVE Feed(_, _)
Feed(t, ks) == IF ks = <<>> THEN t ELSE Feed(Feed1(t, Head(ks)), Tail(ks))

\* A cleared terminal of h rows with the cursor at the start of row r
NewTerm(h, r) == [rows |-> BlankRows(h), r |-> r, c |-> 0, wrap |-> TRUE,
                  paste |-> FALSE]

(***************************************************************************)
(* MiniScreen: the screen model and what each method writes to stdout.     *)
(* A method is an operator from the object to the object after the call,   *)
(* the output it wrote and the value it returned.                          *)
(***************************************************************************)
\* The characters of lines and tokens: a letter, a blank and a punctuation mark
Chars == {"a", " ", "-"}

\* str.isalnum and str.isspace on one character
isalnum(ch) == ch = "a"
isspace(ch) == ch = " "

\* The strings of at most n characters
Strings(n) == UNION {[1..k -> Chars] : k \in 0..n}

\* The fields of a MiniScreen
Self(lines, buf, cur) == [screen_lines |-> lines, linebuf |-> buf, cursor |-> cur]

\* What a method leaves: the object, the output written, the value returned
Done(self, output, ret) == [self |-> self, out |-> output, ret |-> ret]

\* set_line without "c = max(0, min(c, len(s)))"
set_line_unclamped(self, s, c) ==
    LET c1 == IF c = None THEN Len(s) ELSE c[1]
    IN  Done([self EXCEPT !.linebuf = s, !.cursor = c1],
             <<Ctl("CR"), Esc("EL", 0), Text(s)>>
                 \o (IF c1 # Len(s) THEN <<Esc("CUB", Len(s) - c1)>> ELSE <<>>),
             "None")

\* set_line(s, c), where c is None or Some(integer)
set_line(self, s, c) ==
    LET c1 == IF c = None THEN Len(s) ELSE c[1]
        c2 == Max(0, Min(c1, Len(s)))
    IN  Done([self EXCEPT !.linebuf = s, !.cursor = c2],
             <<Ctl("CR"), Esc("EL", 0), Text(s)>>
                 \o (IF c2 # Len(s) THEN <<Esc("CUB", Len(s) - c2)>> ELSE <<>>),
             "None")

move_up(nlines) == IF nlines # 0 THEN <<Esc("CUU", nlines)>> ELSE <<>>

move_down(nlines) == IF nlines # 0 THEN <<Esc("CUD", nlines)>> ELSE <<>>

insert_line == <<Esc("IL", 1)>>

\* What _print_line_1(line) writes; it changes no field
print_line_1(self, line) ==
    <<Ctl("CR")>> \o move_up(Len(self.screen_lines)) \o insert_line
        \o <<Text(line), Ctl("CR")>> \o move_down(Len(self.screen_lines))
        \o <<Ctl("LF")>>

print_line(self, line) ==
    Done(self,
         print_line_1(self, line)
             \o (IF self.cursor # 0 THEN <<Esc("CUB", self.cursor)>> ELSE <<>>),
         "None")

\* The loop of set_window over lines[i:], with the mirror sl and the output so far
RECURSIVE set_window_loop(_, _, _, _)
set_window_loop(lines, i, sl, output) ==
    IF i = Len(lines) THEN [i |-> i, sl |-> sl, out |-> output]
    ELSE LET line == lines[i + 1]
             cr == IF i = 0 THEN <<Ctl("CR")>> ELSE <<>>
         IN  IF i = Len(sl)
             THEN set_window_loop(lines, i + 1, Append(sl, line),
                      output \o cr \o <<Esc("IL", 1), Text(line), Ctl("CR"), Ctl("LF")>>)
             ELSE set_window_loop(lines, i + 1, [sl EXCEPT ![i + 1] = line],
                      output \o cr \o <<Esc("EL", 0), Text(line), Ctl("CR"), Ctl("LF")>>)

\* set_window without "del self._screen_lines[i:]"
set_window_keeps_tail(self, lines) ==
    LET l == set_window_loop(lines, 0, self.screen_lines,
                             move_up(Len(self.screen_lines)))
        cut == l.i < Len(l.sl)
        n == Len(self.linebuf) - self.cursor
    IN  Done([self EXCEPT !.screen_lines = l.sl],
             l.out
                 \o (IF cut THEN <<Ctl("CR"), Esc("DL", Len(l.sl) - l.i)>> ELSE <<>>)
                 \o <<Ctl("CR"), Esc("EL", 0), Text(self.linebuf)>>
                 \o (IF n # 0 THEN <<Esc("CUB", n)>> ELSE <<>>),
             "None")

set_window(self, lines) ==
    LET l == set_window_loop(lines, 0, self.screen_lines,
                             move_up(Len(self.screen_lines)))
        cut == l.i < Len(l.sl)
        n == Len(self.linebuf) - self.cursor
    IN  Done([self EXCEPT !.screen_lines = IF cut THEN Take(l.sl, l.i) ELSE l.sl],
             l.out
                 \o (IF cut THEN <<Ctl("CR"), Esc("DL", Len(l.sl) - l.i)>> ELSE <<>>)
                 \o <<Ctl("CR"), Esc("EL", 0), Text(self.linebuf)>>
                 \o (IF n # 0 THEN <<Esc("CUB", n)>> ELSE <<>>),
             "None")

\* start(): bracketed paste on, autowrap off, then set_window redraws the mirror
start(self) ==
    LET w == set_window([self EXCEPT !.screen_lines = <<>>], self.screen_lines)
    IN  Done(w.self, <<Esc("paste", 1), Esc("autowrap", 0)>> \o w.out, "None")

\* start() reading stdin's attributes after it has set raw mode
setraw_before_save(t) == [attrs |-> "raw", old |-> Some("raw")]

\* start(): self.old = termios.tcgetattr(stdin); tty.setraw(stdin)
setraw(t) == [attrs |-> "raw", old |-> Some(t.attrs)]

\* cleanup(): tcsetattr(stdin, TCSAFLUSH, self.old), del self.old, autowrap on,
\* bracketed paste off; self.old is an AttributeError when there is none
cleanup(self, t) ==
    IF t.old = None
    THEN [self |-> self, out |-> <<>>, ret |-> "AttributeError", tty |-> t]
    ELSE [self |-> self, out |-> <<Esc("autowrap", 1), Esc("paste", 0)>>,
          ret |-> "None", tty |-> [attrs |-> t.old[1], old |-> None]]

\* The tokens handle_keystroke names, and one it does not
Named == {"return", "newline", "backspace", "CTRL-A", "home", "CTRL-E", "end",
          "CTRL-U", "ALT-backspace", "CTRL-W", "leftarrow", "rightarrow"}
Tokens == Named \cup Chars \cup {"F1"}

\* The test of ALT-backspace used for CTRL-W as well
InClass_always_alnum(ch, class) == isalnum(ch)

InClass(ch, class) == IF class = "alnum" THEN isalnum(ch) ELSE isspace(ch)

\* while i > 0 and (linebuf[i - 1] is in the class) = want: i -= 1
RECURSIVE scan_back(_, _, _, _)
scan_back(buf, i, class, want) ==
    IF i > 0 /\ InClass(buf[i], class) = want
    THEN scan_back(buf, i - 1, class, want)
    ELSE i

\* The branch of ALT-backspace and of CTRL-W once i is found
erase_word(self, i) ==
    Done([self EXCEPT !.linebuf = Take(self.linebuf, i) \o Drop(self.linebuf, self.cursor),
                      !.cursor = i],
         <<Esc("CUB", self.cursor - i), Esc("DCH", self.cursor - i)>>,
         "erase")

\* The backspace branch deleting the character under the cursor, not before it
key_backspace_at_cursor(self) ==
    LET buf == self.linebuf
        cur == self.cursor
    IN  IF cur # 0
        THEN Done([self EXCEPT !.linebuf = Take(buf, cur) \o Drop(buf, cur + 1),
                               !.cursor = cur - 1],
                  <<Ctl("BS"), Esc("DCH", 1)>>, "erase")
        ELSE Done(self, <<>>, "erase")

\* The branch of "backspace"
key_backspace(self) ==
    LET buf == self.linebuf
        cur == self.cursor
    IN  IF cur # 0
        THEN Done([self EXCEPT !.linebuf = Take(buf, cur - 1) \o Drop(buf, cur),
                               !.cursor = cur - 1],
                  <<Ctl("BS"), Esc("DCH", 1)>>, "erase")
        ELSE Done(self, <<>>, "erase")

handle_keystroke(self, s) ==
    LET buf == self.linebuf
        cur == self.cursor
    IN  CASE s \in {"return", "newline"} ->
                Done([self EXCEPT !.linebuf = <<>>, !.cursor = 0],
                     print_line_1(self, buf) \o <<Esc("EL", 0)>>, "newline")
          [] s = "backspace" -> key_backspace(self)
          [] s \in Chars ->
                Done([self EXCEPT !.linebuf = Take(buf, cur) \o <<s>> \o Drop(buf, cur),
                                  !.cursor = cur + 1],
                     (IF cur # Len(buf) THEN <<Esc("ICH", 1)>> ELSE <<>>) \o <<Text(<<s>>)>>,
                     "input")
          [] s \in {"CTRL-A", "home"} ->
                Done([self EXCEPT !.cursor = 0], <<Ctl("CR")>>, "arrow")
          [] s \in {"CTRL-E", "end"} ->
                Done([self EXCEPT !.cursor = Len(buf)],
                     <<Ctl("CR")>> \o (IF Len(buf) # 0 THEN <<Esc("CUF", Len(buf))>> ELSE <<>>),
                     "arrow")
          [] s = "CTRL-U" ->
                Done([self EXCEPT !.cursor = 0, !.linebuf = <<>>],
                     <<Ctl("CR"), Esc("EL", 0)>>, "erase")
          [] s = "ALT-backspace" ->
                erase_word(self, scan_back(buf, scan_back(buf, cur, "alnum", FALSE),
                                           "alnum", TRUE))
          [] s = "CTRL-W" ->
                erase_word(self, scan_back(buf, scan_back(buf, cur, "space", TRUE),
                                           "space", FALSE))
          [] s = "leftarrow" ->
                IF cur > 0
                THEN Done([self EXCEPT !.cursor = cur - 1], <<Esc("CUB", 1)>>, "arrow")
                ELSE Done(self, <<>>, "arrow")
          [] s = "rightarrow" ->
                IF cur < Len(buf)
                THEN Done([self EXCEPT !.cursor = cur + 1], <<Esc("CUF", 1)>>, "arrow")
                ELSE Done(self, <<>>, "arrow")
          [] OTHER -> Done(self, <<>>, "None")

\* The MiniScreen object of the current state
\* __next__ passing CTRL-D on to handle_keystroke
next_applies_ctrl_d(self, s) ==
    IF s = "CTRL-C"
    THEN Done(self, <<>>, "KeyboardInterrupt")
    ELSE LET d == handle_keystroke(self, s)
         IN  IF d.ret # "None" THEN d ELSE Done(d.self, d.out, s)

\* __next__ once read_one_keystroke has returned s: what it returns or raises
next(self, s) ==
    IF s = "CTRL-D"
    THEN Done(self, <<>>, "StopIteration")
    ELSE IF s = "CTRL-C"
    THEN Done(self, <<>>, "KeyboardInterrupt")
    ELSE LET d == handle_keystroke(self, s)
         IN  IF d.ret # "None" THEN d ELSE Done(d.self, d.out, s)

TheScreen == Self(screen_lines, linebuf, cursor)

\* The attributes stdin's terminal may have outside a session
Modes == {"cooked", "cbreak"}

\* No session yet, before a terminal whose attributes are a
SessionInit(a) ==
    /\ tty = [attrs |-> a, old |-> None]
    /\ session = [pc |-> "new", back |-> "new", path |-> "none", entered |-> a,
                  entries |-> 0, restores |-> 0]

(***************************************************************************)
(* The keystroke decoder, consolestreaming.parse_one_keystroke.  A         *)
(* character is its code point; -1 is the empty string that get_next_char  *)
(* returns when there is no input.                                         *)
(***************************************************************************)
MaxRest == 2

\* What parse_one_keystroke returns or raises: the character o itself
\* ("char"), a token of a table ("name"), "ALT-" + the character o ("ALT-"),
\* or an exception ("raise", with its type and the table it names)
Keystroke(tag, name, o) == [tag |-> tag, name |-> name, o |-> o]

\* The tables of parse_one_keystroke: a key, as the code points of its
\* characters, and its token
codes ==
    {<<<<1>>, "CTRL-A">>,                           \* "\x01"
     <<<<2>>, "CTRL-B">>,                           \* "\x02"
     <<<<3>>, "CTRL-C">>,                           \* "\x03"
     <<<<4>>, "CTRL-D">>,                           \* "\x04"
     <<<<5>>, "CTRL-E">>,                           \* "\x05"
     <<<<6>>, "CTRL-F">>,                           \* "\x06"
     <<<<7>>, "CTRL-G">>,                           \* "\x07"
     <<<<8>>, "CTRL-H">>,                           \* "\x08"
     <<<<9>>, "tab">>,                              \* "\t"
     <<<<10>>, "newline">>,                         \* "\n"
     <<<<11>>, "CTRL-K">>,                          \* "\x0B"
     <<<<12>>, "CTRL-L">>,                          \* "\x0C"
     <<<<13>>, "return">>,                          \* "\r"
     <<<<14>>, "CTRL-N">>,                          \* "\x0E"
     <<<<15>>, "CTRL-O">>,                          \* "\x0F"
     <<<<16>>, "CTRL-P">>,                          \* "\x10"
     <<<<17>>, "CTRL-Q">>,                          \* "\x11"
     <<<<18>>, "CTRL-R">>,                          \* "\x12"
     <<<<19>>, "CTRL-S">>,                          \* "\x13"
     <<<<20>>, "CTRL-T">>,                          \* "\x14"
     <<<<21>>, "CTRL-U">>,                          \* "\x15"
     <<<<22>>, "CTRL-V">>,                          \* "\x16"
     <<<<23>>, "CTRL-W">>,                          \* "\x17"
     <<<<24>>, "CTRL-X">>,                          \* "\x18"
     <<<<25>>, "CTRL-Y">>,                          \* "\x19"
     <<<<26>>, "CTRL-Z">>,                          \* "\x1A"
     <<<<127>>, "backspace">>}                      \* "\x7f"

\* After ESC
esccodes ==
    {<<<<127>>, "ALT-backspace">>}                  \* "\x7f"

\* After ESC O
altocodes ==
    {<<<<80>>, "F1">>,                              \* "P"
     <<<<81>>, "F2">>,                              \* "Q"
     <<<<82>>, "F3">>,                              \* "R"
     <<<<83>>, "F4">>}                              \* "S"

\* After ESC [
csicodes ==
    {<<<<65>>, "uparrow">>,                         \* "A"
     <<<<66>>, "downarrow">>,                       \* "B"
     <<<<67>>, "rightarrow">>,                      \* "C"
     <<<<68>>, "leftarrow">>,                       \* "D"
     <<<<70>>, "end">>,                             \* "F"
     <<<<72>>, "home">>,                            \* "H"
     <<<<50, 126>>, "insert">>,                     \* "2~"
     <<<<51, 126>>, "delete">>,                     \* "3~"
     <<<<53, 126>>, "pageup">>,                     \* "5~"
     <<<<54, 126>>, "pagedown">>,                   \* "6~"
     <<<<49, 53, 126>>, "F5">>,                     \* "15~"
     <<<<49, 55, 126>>, "F6">>,                     \* "17~"
     <<<<49, 56, 126>>, "F7">>,                     \* "18~"
     <<<<49, 57, 126>>, "F8">>,                     \* "19~"
     <<<<50, 48, 126>>, "F9">>,                     \* "20~"
     <<<<50, 50, 126>>, "F10">>,                    \* "22~"
     <<<<50, 51, 126>>, "F11">>,                    \* "23~"
     <<<<50, 52, 126>>, "F12">>,                    \* "24~"
     <<<<49, 53, 59, 50, 126>>, "SHIFT-F5">>,       \* "15;2~"
     <<<<49, 55, 59, 50, 126>>, "SHIFT-F6">>,       \* "17;2~"
     <<<<49, 56, 59, 50, 126>>, "SHIFT-F7">>,       \* "18;2~"
     <<<<49, 57, 59, 50, 126>>, "SHIFT-F8">>,       \* "19;2~"
     <<<<50, 48, 59, 50, 126>>, "SHIFT-F9">>,       \* "20;2~"
     <<<<50, 50, 59, 50, 126>>, "SHIFT-F10">>,      \* "22;2~"
     <<<<50, 51, 59, 50, 126>>, "SHIFT-F11">>,      \* "23;2~"
     <<<<50, 52, 59, 50, 126>>, "SHIFT-F12">>,      \* "24;2~"
     <<<<49, 53, 59, 53, 126>>, "CTRL-F5">>,        \* "15;5~"
     <<<<49, 55, 59, 53, 126>>, "CTRL-F6">>,        \* "17;5~"
     <<<<49, 56, 59, 53, 126>>, "CTRL-F7">>,        \* "18;5~"
     <<<<49, 57, 59, 53, 126>>, "CTRL-F8">>,        \* "19;5~"
     <<<<50, 48, 59, 53, 126>>, "CTRL-F9">>,        \* "20;5~"
     <<<<50, 49, 59, 53, 126>>, "CTRL-F10">>,       \* "21;5~"
     <<<<50, 51, 59, 53, 126>>, "CTRL-F11">>,       \* "23;5~"
     <<<<50, 52, 59, 53, 126>>, "CTRL-F12">>,       \* "24;5~"
     <<<<49, 53, 59, 51, 126>>, "ALT-F5">>,         \* "15;3~"
     <<<<49, 55, 59, 51, 126>>, "ALT-F6">>,         \* "17;3~"
     <<<<49, 56, 59, 51, 126>>, "ALT-F7">>,         \* "18;3~"
     <<<<49, 57, 59, 51, 126>>, "ALT-F8">>,         \* "19;3~"
     <<<<50, 48, 59, 51, 126>>, "ALT-F9">>,         \* "20;3~"
     <<<<50, 49, 59, 51, 126>>, "ALT-F10">>,        \* "21;3~"
     <<<<50, 51, 59, 51, 126>>, "ALT-F11">>,        \* "23;3~"
     <<<<50, 52, 59, 51, 126>>, "ALT-F12">>,        \* "24;3~"
     <<<<49, 53, 59, 52, 126>>, "ALT-SHIFT-F5">>,   \* "15;4~"
     <<<<49, 55, 59, 52, 126>>, "ALT-SHIFT-F6">>,   \* "17;4~"
     <<<<49, 56, 59, 52, 126>>, "ALT-SHIFT-F7">>,   \* "18;4~"
     <<<<49, 57, 59, 52, 126>>, "ALT-SHIFT-F8">>,   \* "19;4~"
     <<<<50, 48, 59, 52, 126>>, "ALT-SHIFT-F9">>,   \* "20;4~"
     <<<<50, 49, 59, 52, 126>>, "ALT-SHIFT-F10">>,  \* "21;4~"
     <<<<50, 51, 59, 52, 126>>, "ALT-SHIFT-F11">>,  \* "23;4~"
     <<<<50, 52, 59, 52, 126>>, "ALT-SHIFT-F12">>,  \* "24;4~"
     <<<<49, 53, 59, 56, 126>>, "CTRL-ALT-SHIFT-F5">>,\* "15;8~"
     <<<<49, 55, 59, 56, 126>>, "CTRL-ALT-SHIFT-F6">>,\* "17;8~"
     <<<<49, 56, 59, 56, 126>>, "CTRL-ALT-SHIFT-F7">>,\* "18;8~"
     <<<<49, 57, 59, 56, 126>>, "CTRL-ALT-SHIFT-F8">>,\* "19;8~"
     <<<<50, 48, 59, 56, 126>>, "CTRL-ALT-SHIFT-F9">>,\* "20;8~"
     <<<<50, 49, 59, 56, 126>>, "CTRL-ALT-SHIFT-F10">>,\* "21;8~"
     <<<<50, 51, 59, 56, 126>>, "CTRL-ALT-SHIFT-F11">>,\* "23;8~"
     <<<<50, 52, 59, 56, 126>>, "CTRL-ALT-SHIFT-F12">>,\* "24;8~"
     <<<<53, 59, 51, 126>>, "ALT-pageup">>,         \* "5;3~"
     <<<<54, 59, 51, 126>>, "ALT-pagedown">>,       \* "6;3~"
     <<<<53, 59, 55, 126>>, "CTRL-ALT-pageup">>,    \* "5;7~"
     <<<<54, 59, 55, 126>>, "CTRL-ALT-pagedown">>,  \* "6;7~"
     <<<<49, 59, 50, 80>>, "SHIFT-F1">>,            \* "1;2P"
     <<<<49, 59, 50, 81>>, "SHIFT-F2">>,            \* "1;2Q"
     <<<<49, 59, 50, 82>>, "SHIFT-F3">>,            \* "1;2R"
     <<<<49, 59, 50, 83>>, "SHIFT-F4">>,            \* "1;2S"
     <<<<49, 59, 53, 80>>, "CTRL-F1">>,             \* "1;5P"
     <<<<49, 59, 53, 81>>, "CTRL-F2">>,             \* "1;5Q"
     <<<<49, 59, 53, 82>>, "CTRL-F3">>,             \* "1;5R"
     <<<<49, 59, 53, 83>>, "CTRL-F4">>,             \* "1;5S"
     <<<<49, 59, 51, 80>>, "ALT-F1">>,              \* "1;3P"
     <<<<49, 59, 51, 81>>, "ALT-F2">>,              \* "1;3Q"
     <<<<49, 59, 51, 82>>, "ALT-F3">>,              \* "1;3R"
     <<<<49, 59, 51, 83>>, "ALT-F4">>,              \* "1;3S"
     <<<<49, 59, 52, 80>>, "ALT-SHIFT-F1">>,        \* "1;4P"
     <<<<49, 59, 52, 81>>, "ALT-SHIFT-F2">>,        \* "1;4Q"
     <<<<49, 59, 52, 82>>, "ALT-SHIFT-F3">>,        \* "1;4R"
     <<<<49, 59, 52, 83>>, "ALT-SHIFT-F4">>,        \* "1;4S"
     <<<<49, 59, 56, 80>>, "CTRL-ALT-SHIFT-F1">>,   \* "1;8P"
     <<<<49, 59, 56, 81>>, "CTRL-ALT-SHIFT-F2">>,   \* "1;8Q"
     <<<<49, 59, 56, 82>>, "CTRL-ALT-SHIFT-F3">>,   \* "1;8R"
     <<<<49, 59, 56, 83>>, "CTRL-ALT-SHIFT-F4">>,   \* "1;8S"
     <<<<49, 59, 54, 80>>, "CTRL-ALT-F1">>,         \* "1;6P"
     <<<<49, 59, 54, 81>>, "CTRL-ALT-F2">>,         \* "1;6Q"
     <<<<49, 59, 54, 82>>, "CTRL-ALT-F3">>,         \* "1;6R"
     <<<<49, 59, 54, 83>>, "CTRL-ALT-F4">>,         \* "1;6S"
     <<<<49, 59, 51, 65>>, "ALT-uparrow">>,         \* "1;3A"
     <<<<49, 59, 51, 66>>, "ALT-downarrow">>,       \* "1;3B"
     <<<<49, 59, 51, 67>>, "ALT-rightarrow">>,      \* "1;3C"
     <<<<49, 59, 51, 68>>, "ALT-leftarrow">>,       \* "1;3D"
     <<<<49, 59, 51, 70>>, "ALT-end">>,             \* "1;3F"
     <<<<49, 59, 51, 72>>, "ALT-home">>,            \* "1;3H"
     <<<<49, 59, 53, 65>>, "CTRL-uparrow">>,        \* "1;5A"
     <<<<49, 59, 53, 66>>, "CTRL-downarrow">>,      \* "1;5B"
     <<<<49, 59, 53, 67>>, "CTRL-rightarrow">>,     \* "1;5C"
     <<<<49, 59, 53, 68>>, "CTRL-leftarrow">>,      \* "1;5D"
     <<<<49, 59, 53, 70>>, "CTRL-end">>,            \* "1;5F"
     <<<<49, 59, 53, 72>>, "CTRL-home">>,           \* "1;5H"
     <<<<49, 59, 55, 70>>, "CTRL-ALT-end">>,        \* "1;7F"
     <<<<49, 59, 55, 72>>, "CTRL-ALT-home">>,       \* "1;7H"
     <<<<50, 59, 51, 126>>, "ALT-insert">>,         \* "2;3~"
     <<<<50, 59, 53, 126>>, "CTRL-insert">>,        \* "2;5~"
     <<<<51, 59, 50, 126>>, "SHIFT-delete">>,       \* "3;2~"
     <<<<51, 59, 51, 126>>, "ALT-delete">>,         \* "3;3~"
     <<<<51, 59, 53, 126>>, "CTRL-delete">>,        \* "3;5~"
     <<<<50, 48, 48, 126>>, "pastestart">>,         \* "200~"
     <<<<50, 48, 49, 126>>, "pasteend">>}           \* "201~"

\* A lookup that takes an entry of the table whatever the key
table_get_any(table, key, name) ==
    Keystroke("name", (CHOOSE e \in table : TRUE)[2], 0)

\* try: return table[key]; except KeyError: raise NotImplementedError(
\* "Need <name> entry: ...")
table_get(table, key, name) ==
    LET hits == {e \in table : e[1] = key}
    IN  IF hits = {}
        THEN Keystroke("raise", "NotImplementedError: " \o name, 0)
        ELSE Keystroke("name", (CHOOSE e \in hits : TRUE)[2], 0)

\* A test that stops below DEL
printable_below_del(o) == 32 <= o /\ o < 127

\* if 32 <= o != 127
printable(o) == 32 <= o /\ o # 127

\* The loop after ESC [ ending after the first character whatever it is
csi_loop_one(rest, i) == [last |-> i, calls |-> i]

\* The loop after ESC [, rest[i] being the last character of s: the index of
\* the last character of s and the calls of get_next_char when the loop ends
RECURSIVE csi_loop(_, _)
csi_loop(rest, i) ==
    IF 32 <= rest[i] /\ rest[i] < 60
    THEN IF i + 1 <= Len(rest)
         THEN csi_loop(rest, i + 1)
         ELSE [last |-> i, calls |-> i + 1]
    ELSE [last |-> i, calls |-> i]

\* The branch of ESC O looking its character up although there is none
esc_O_always_looks_up(rest) ==
    [key |-> table_get(altocodes, SubSeq(rest, 2, Min(2, Len(rest))), "altocodes"),
     calls |-> 2]

\* if s == "O": the branch of ESC O, rest[1] being the "O"
esc_O(rest) ==
    IF Len(rest) < 2
    THEN [key |-> Keystroke("name", "ALT-O", 0), calls |-> 2]
    ELSE [key |-> table_get(altocodes, <<rest[2]>>, "altocodes"), calls |-> 2]

\* The branch of ESC and a character that is neither "[" nor "O", rest[1]
esc_other(rest) ==
    IF (32 <= rest[1] /\ rest[1] < 127) \/ 255 < rest[1]
    THEN [key |-> Keystroke("ALT-", "", rest[1]), calls |-> 1]
    ELSE [key |-> table_get(esccodes, <<rest[1]>>, "esccodes"), calls |-> 1]

\* parse_one_keystroke(first_char, get_next_char), get_next_char returning the
\* characters of rest one by one and then "": the outcome, and the number of
\* calls of get_next_char
parse_one_keystroke(first_char, rest) ==
    LET get(i) == IF i <= Len(rest) THEN rest[i] ELSE -1
        Ret(key, n) == [key |-> key, calls |-> n]
    IN  IF printable(first_char)
        THEN Ret(Keystroke("char", "", first_char), 0)
        ELSE IF first_char = 27
        THEN IF get(1) = -1
             THEN Ret(Keystroke("name", "escape", 0), 1)
             ELSE IF get(1) = 91
             THEN IF get(2) = -1
                  THEN Ret(Keystroke("raise", "IndexError", 0), 2)
                  ELSE LET l == csi_loop(rest, 2)
                       IN  Ret(table_get(csicodes, SubSeq(rest, 2, l.last), "csicodes"),
                               l.calls)
             ELSE IF get(1) = 79
             THEN esc_O(rest)
             ELSE esc_other(rest)
        ELSE Ret(table_get(codes, <<first_char>>, "codes"), 0)

(***************************************************************************)
(* Calls of the UTF-8 decoder, unicodestreaming.parse_one_character.  A    *)
(* byte is 0..255; the outcome is a Keystroke: the character ("char") or   *)
(* UnicodeDecodeError with its reason ("raise").                           *)
(***************************************************************************)
MaxMore == 3

\* b.decode("utf-8") of a byte string that holds at most one character, as
\* CPython decodes it: the start byte gives the length and the range of the
\* second byte, the bytes present are tested in order, and a string that is
\* too short but valid so far is "unexpected end of data"
utf8_decode(b) ==
    LET b1 == b[1]
        n == IF b1 < 128 THEN 1
             ELSE IF 194 <= b1 /\ b1 <= 223 THEN 2
             ELSE IF 224 <= b1 /\ b1 <= 239 THEN 3
             ELSE IF 240 <= b1 /\ b1 <= 244 THEN 4
             ELSE 0
        lo == IF b1 = 224 THEN 160 ELSE IF b1 = 240 THEN 144 ELSE 128
        hi == IF b1 = 237 THEN 159 ELSE IF b1 = 244 THEN 143 ELSE 191
        bad == {j \in 2..Min(Len(b), n) :
                   IF j = 2 THEN b[j] < lo \/ b[j] > hi ELSE b[j] < 128 \/ b[j] > 191}
        lead == IF n = 1 THEN b1 ELSE IF n = 2 THEN b1 - 192
                ELSE IF n = 3 THEN b1 - 224 ELSE b1 - 240
        RECURSIVE value(_, _)
        value(v, j) == IF j > n THEN v ELSE value(v * 64 + (b[j] - 128), j + 1)
    IN  IF n = 0
        THEN Keystroke("raise", "UnicodeDecodeError: invalid start byte", 0)
        ELSE IF bad # {}
        THEN Keystroke("raise", "UnicodeDecodeError: invalid continuation byte", 0)
        ELSE IF Len(b) < n
        THEN Keystroke("raise", "UnicodeDecodeError: unexpected end of data", 0)
        ELSE IF Len(b) = n
        THEN Keystroke("char", "", value(lead, 2))
        ELSE Keystroke("str", "", value(lead, 2))

\* The loop fetching every byte there is before it decodes
read_all_then_decode(b, rest, i) ==
    [key |-> utf8_decode(b \o rest), calls |-> Len(rest) + 1]

\* for i in range(10): the loop of parse_one_character when it has b and has
\* called get_next_byte i times, get_next_byte returning the bytes of rest one
\* by one and then b""
RECURSIVE read_more(_, _, _)
read_more(b, rest, i) ==
    IF i = 10 \/ i >= Len(rest)
    THEN [key |-> utf8_decode(b), calls |-> IF i = 10 THEN i ELSE i + 1]
    ELSE LET d == utf8_decode(Append(b, rest[i + 1]))
         IN  IF d.name = "UnicodeDecodeError: unexpected end of data"
             THEN read_more(Append(b, rest[i + 1]), rest, i + 1)
             ELSE [key |-> d, calls |-> i + 1]

\* parse_one_character(first_byte, get_next_byte): the outcome, and the number
\* of calls of get_next_byte
parse_one_character(first_byte, rest) ==
    LET d == utf8_decode(<<first_byte>>)
    IN  IF d.name = "UnicodeDecodeError: unexpected end of data"
        THEN read_more(<<first_byte>>, rest, 0)
        ELSE [key |-> d, calls |-> 0]

\* No call of parse_one_keystroke
NoCall == [first |-> -1, rest |-> <<>>, done |-> FALSE,
           key |-> Keystroke("none", "", 0), calls |-> 0, left |-> <<>>]

\* A MiniScreen after construction, before a terminal of h rows at row r
ScreenInit(h, r) ==
    /\ screen_lines = <<>>
    /\ linebuf = <<>>
    /\ cursor = 0
    /\ started = FALSE
    /\ term = NewTerm(h, r)
    /\ out = <<>>
    /\ returned = "None"

InitScope(sc) ==
    /\ scope = sc
    /\ pidfd_to_process = <<>>
    /\ readfd_to_process = <<>>
    /\ writefd_to_process = <<>>
    /\ proc = [p \in Procs |-> NoProc]
    /\ nprocs = 0
    /\ coro = [t \in Tasks |-> "unborn"]
    /\ ntasks = 0
    /\ child = [p \in Procs |-> NoChild]
    /\ keys = 0
    /\ typed = 0
    /\ stdin_eof = FALSE
    /\ rootpc = "running"
    /\ fut = [kind |-> "none", task |-> NoTask]
    /\ result = "unbound"
    /\ first = TRUE
    /\ raised = "none"
    /\ ncaught = 0
    /\ event = NoEvent
    /\ resumed = [p \in Procs |-> 0]

Init ==
    /\ InitScope(WideScope) \/ InitScope(DeepScope)
    /\ ScreenInit(Height, 1)
    /\ SessionInit("cooked")
    /\ decoder = NoCall

InitDeep ==
    /\ InitScope(DeepScope) /\ ScreenInit(Height, 1) /\ SessionInit("cooked")
    /\ decoder = NoCall

(***************************************************************************)
(* The environment: child processes and the keyboard.  Nothing of it is    *)
(* observed once run_coroutine has ended.                                  *)
(***************************************************************************)
Running == rootpc \notin {"done", "crashed"}

\* A child writes its next byte to its stdout pipe
ChildWrite(p) ==
    /\ Running
    /\ child[p].alive /\ child[p].outOpen
    /\ Len(child[p].wrote) < MaxOut
    /\ LET b == Len(child[p].wrote) + 1
       IN  child' = [child EXCEPT ![p].wrote = Append(@, b),
                                  ![p].pipeOut = Append(@, b)]
    /\ UNCHANGED <<tables, proc, nprocs, coro, ntasks, keys, typed, stdin_eof,
                   rootvars, ghostvars, scope, screenvars>>

\* A child closes its stdout and keeps running
ChildCloseStdout(p) ==
    /\ Running
    /\ child[p].alive /\ child[p].outOpen
    /\ child' = [child EXCEPT ![p].outOpen = FALSE]
    /\ UNCHANGED <<tables, proc, nprocs, coro, ntasks, keys, typed, stdin_eof,
                   rootvars, ghostvars, scope, screenvars>>

\* A child reads one byte from its stdin pipe
ChildRead(p) ==
    /\ Running
    /\ child[p].alive /\ child[p].inOpen
    /\ child[p].inFill > 0
    /\ child' = [child EXCEPT ![p].inFill = @ - 1]
    /\ UNCHANGED <<tables, proc, nprocs, coro, ntasks, keys, typed, stdin_eof,
                   rootvars, ghostvars, scope, screenvars>>

\* A child exits: its ends of the pipes close and its pidfd becomes readable
ChildExit(p, code) ==
    /\ Running
    /\ child[p].alive
    /\ child' = [child EXCEPT ![p].alive = FALSE, ![p].code = code,
                              ![p].outOpen = FALSE, ![p].inOpen = FALSE]
    /\ UNCHANGED <<tables, proc, nprocs, coro, ntasks, keys, typed, stdin_eof,
                   rootvars, ghostvars, scope, screenvars>>

\* The user types a keystroke
UserTypes ==
    /\ Running
    /\ ~stdin_eof
    /\ typed < MaxKeys
    /\ keys' = keys + 1
    /\ typed' = typed + 1
    /\ UNCHANGED <<tables, proc, nprocs, coro, ntasks, child, stdin_eof,
                   rootvars, ghostvars, scope, screenvars>>

\* The keystroke descriptor reaches end of input
UserCloses ==
    /\ Running
    /\ ~stdin_eof
    /\ stdin_eof' = TRUE
    /\ UNCHANGED <<tables, proc, nprocs, coro, ntasks, child, keys, typed,
                   rootvars, ghostvars, scope, screenvars>>

(***************************************************************************)
(* The root computation and run_coroutine.                                 *)
(***************************************************************************)
\* create_task(coro) called by the root computation, for a coroutine that
\* returns at once (spawn = FALSE) or awaits check_output(cmdline, input=input)
CreateTask(spawn, input) ==
    /\ ~spawn => input = None
    /\ InScope(input)
    /\ rootpc \in {"running", "handling"}
    /\ ntasks < scope.tasks
    /\ ntasks' = ntasks + 1
    /\ IF spawn
       THEN /\ nprocs < scope.procs
            /\ LET t == ntasks + 1
                   p == nprocs + 1
                   r == [NewProcess(proc, CmdOf(p), input) EXCEPT !.task = t]
                   m == Mount(tables, p, r)
               IN  /\ coro' = [coro EXCEPT ![t] = "live"]
                   /\ proc' = [proc EXCEPT ![p] = r]
                   /\ child' = [child EXCEPT ![p] = NewChild(input)]
                   /\ nprocs' = p
                   /\ pidfd_to_process' = m[1]
                   /\ readfd_to_process' = m[2]
                   /\ writefd_to_process' = m[3]
       ELSE /\ coro' = [coro EXCEPT ![ntasks + 1] = "None"]
            /\ UNCHANGED <<tables, proc, nprocs, child>>
    /\ UNCHANGED <<keys, typed, stdin_eof, rootvars, ghostvars, scope, screenvars>>

\* The root computation awaits next_keystroke()
RootAwaitKeystroke ==
    /\ rootpc = "running"
    /\ fut' = [kind |-> "key", task |-> NoTask]
    /\ first' = FALSE
    /\ rootpc' = "resolve"
    /\ UNCHANGED <<tables, proc, nprocs, coro, ntasks, envvars, result, raised,
                   ncaught, ghostvars, scope, screenvars>>

\* The root computation awaits a Task; run_coroutine asserts that the first
\* future is a NextKeystroke
RootAwaitTask(t) ==
    /\ rootpc = "running"
    /\ t <= ntasks
    /\ IF first
       THEN /\ rootpc' = "crashed"
            /\ UNCHANGED fut
       ELSE /\ rootpc' = "resolve"
            /\ fut' = [kind |-> "task", task |-> t]
    /\ first' = FALSE
    /\ UNCHANGED <<tables, proc, nprocs, coro, ntasks, envvars, result, raised,
                   ncaught, ghostvars, scope, screenvars>>

\* The root computation returns: StopIteration ends run_coroutine
RootReturn ==
    /\ rootpc = "running"
    /\ rootpc' = "done"
    /\ UNCHANGED <<tables, proc, nprocs, coro, ntasks, envvars, fut, result, first,
                   raised, ncaught, ghostvars, scope, screenvars>>

\* coro.throw(e) when the root computation does not catch e
RootUncaught ==
    /\ rootpc = "throw"
    /\ rootpc' = "crashed"
    /\ UNCHANGED <<tables, proc, nprocs, coro, ntasks, envvars, fut, result, first,
                   raised, ncaught, ghostvars, scope, screenvars>>

\* coro.throw(e) when the root computation catches e and runs on
RootCatch ==
    /\ rootpc = "throw"
    /\ ncaught < MaxCatch
    /\ ncaught' = ncaught + 1
    /\ rootpc' = "handling"
    /\ raised' = "none"
    /\ UNCHANGED <<tables, proc, nprocs, coro, ntasks, envvars, fut, result, first,
                   ghostvars, scope, screenvars>>

\* The root computation, having caught e, yields a future: coro.throw returns it,
\* run_coroutine drops it and calls coro.send(result)
RootYieldsInHandler ==
    /\ rootpc = "handling"
    /\ rootpc' = IF result = "unbound" THEN "crashed" ELSE "running"
    /\ UNCHANGED <<tables, proc, nprocs, coro, ntasks, envvars, fut, result, first,
                   raised, ncaught, ghostvars, scope, screenvars>>

\* The root computation, having caught e, returns: StopIteration leaves
\* coro.throw and run_coroutine
RootReturnsInHandler ==
    /\ rootpc = "handling"
    /\ rootpc' = "crashed"
    /\ UNCHANGED <<tables, proc, nprocs, coro, ntasks, envvars, fut, result, first,
                   raised, ncaught, ghostvars, scope, screenvars>>

(***************************************************************************)
(* EventLoop.resolve: one pass of its loop per step.                       *)
(***************************************************************************)
\* An exception leaves resolve: run_coroutine will throw it into the root
Raise(name, fd) ==
    /\ rootpc' = "throw"
    /\ raised' = name
    /\ event' = Event("error", fd)
    /\ UNCHANGED <<fut, result, first, ncaught>>

\* resolve returns value v: run_coroutine sends it into the root computation
Return(v) ==
    /\ rootpc' = "running"
    /\ result' = v
    /\ UNCHANGED <<fut, first, raised, ncaught>>

\* The awaited Task has no coro: resolve returns None without polling
ResolveTaskDone ==
    /\ rootpc = "resolve"
    /\ fut.kind = "task"
    /\ coro[fut.task] = "None"
    /\ Return("None")
    /\ event' = Event("taskdone", NoFd)
    /\ UNCHANGED <<tables, proc, nprocs, coro, ntasks, envvars, resumed, scope, screenvars>>

\* The awaited Task still has a coro: select returns, and nk.fd is evaluated
\* on a Task, which has no attribute fd
ResolveTaskPending ==
    /\ rootpc = "resolve"
    /\ fut.kind = "task"
    /\ coro[fut.task] # "None"
    /\ SelectReturns
    /\ Raise("AttributeError", NoFd)
    /\ UNCHANGED <<tables, proc, nprocs, coro, ntasks, envvars, resumed, scope, screenvars>>

\* The keystroke descriptor is in readfds: read_one_keystroke, assert res
ResolveKeystroke ==
    /\ rootpc = "resolve"
    /\ fut.kind = "key"
    /\ KeyReady
    /\ IF keys > 0
       THEN /\ keys' = keys - 1
            /\ Return("key")
            /\ event' = Event("keystroke", KeyFd)
       ELSE /\ Raise("AssertionError: res", KeyFd)
            /\ UNCHANGED keys
    /\ UNCHANGED <<tables, proc, nprocs, coro, ntasks, child, typed, stdin_eof,
                   resumed, scope, screenvars>>

\* What os.read(fd, 2**20) returns from a pipe holding data
ReadChunk(data) == SubSeq(data, 1, Min(Len(data), ReadMax))

\* can_read(fd) for an output descriptor: lines 58-68
CanReadOutput ==
    /\ rootpc = "resolve"
    /\ fut.kind = "key"
    /\ ~KeyReady
    /\ ReadFds # <<>>
    /\ LET fd == Head(ReadFds).fd IN
       /\ fd \in Keys(readfd_to_process)
       /\ LET p == Lookup(readfd_to_process, fd)
              r == ReadChunk(child[p].pipeOut)
          IN  IF fd \in Keys(pidfd_to_process) \/ proc[p].readfd # fd
              THEN /\ Raise("AssertionError: can_read", fd)
                   /\ UNCHANGED <<tables, proc, child>>
              ELSE /\ child' = [child EXCEPT ![p].pipeOut = Drop(@, Len(r))]
                   /\ IF r = <<>>
                      THEN /\ readfd_to_process' = Del(readfd_to_process, fd)
                           /\ proc' = [proc EXCEPT ![p].output = @ \o r,
                                                   ![p].readfd = NoFd]
                      ELSE /\ proc' = [proc EXCEPT ![p].output = @ \o r]
                           /\ UNCHANGED readfd_to_process
                   /\ event' = Event("read", fd)
                   /\ UNCHANGED <<pidfd_to_process, writefd_to_process, rootvars>>
    /\ UNCHANGED <<nprocs, coro, ntasks, keys, typed, stdin_eof, resumed, scope, screenvars>>

\* Delivery that sends the output whatever the exit code
DeliveryIgnoresCode(code, cmdline, stdout) ==
    [how |-> "send", code |-> 0, args |-> <<>>, out |-> stdout]

\* What the exit handler delivers to the task: coro.send(stdout) when the exit
\* code is 0, coro.throw(CalledProcessError(code, cmdline, stdout)) otherwise
Delivery(code, cmdline, stdout) ==
    IF code # 0
    THEN [how |-> "throw", code |-> code, args |-> cmdline, out |-> stdout]
    ELSE [how |-> "send", code |-> 0, args |-> <<>>, out |-> stdout]

\* Unregistered without "del self.pidfd_to_process[fd]"
UnregisteredKeepsPidfd(tbls, r) ==
    <<tbls[1],
      IF r.readfd # NoFd THEN Del(tbls[2], r.readfd) ELSE tbls[2],
      IF r.writefd # NoFd THEN Del(tbls[3], r.writefd) ELSE tbls[3]>>

\* Unregistered without "del self.readfd_to_process[proc.readfd.fileno()]"
UnregisteredKeepsReadfd(tbls, r) ==
    <<Del(tbls[1], r.pidfd),
      tbls[2],
      IF r.writefd # NoFd THEN Del(tbls[3], r.writefd) ELSE tbls[3]>>

\* The tables after the exit handler unregistered the descriptors of record r
Unregistered(tbls, r) ==
    <<Del(tbls[1], r.pidfd),
      IF r.readfd # NoFd THEN Del(tbls[2], r.readfd) ELSE tbls[2],
      IF r.writefd # NoFd THEN Del(tbls[3], r.writefd) ELSE tbls[3]>>

\* What the exit pass for process p of task t did: the delivery d and the
\* process q it mounted for the task (0: none), and for the record what the
\* child had written and what the Process record held
ExitEvent(fd, p, t, d, q) ==
    [kind |-> "exit", fd |-> fd, proc |-> p, task |-> t, mounted |-> q, how |-> d.how,
     code |-> d.code, args |-> d.args, out |-> d.out,
     wrote |-> child[p].wrote, exited |-> ~child[p].alive,
     exitcode |-> child[p].code, cmdline |-> proc[p].cmdline,
     output |-> proc[p].output]

\* can_read(fd) for a pidfd: lines 69-109.  The resumed task returns, raises,
\* or awaits check_output(cmdline, input=input).  The exit handler holds the
\* last reference to the Process record and reaps the child: both are gone
\* afterwards.
CanReadExit(react, input) ==
    /\ react # "await" => input = None
    /\ InScope(input)
    /\ rootpc = "resolve"
    /\ fut.kind = "key"
    /\ ~KeyReady
    /\ ReadFds # <<>>
    /\ LET fd == Head(ReadFds).fd IN
       /\ fd \notin Keys(readfd_to_process)
       /\ fd \in Keys(pidfd_to_process)
       /\ LET p == Lookup(pidfd_to_process, fd)
              t == proc[p].task
              un == Unregistered(tables, proc[p])
              pr1 == [proc EXCEPT ![p] = NoProc]
              ch1 == [child EXCEPT ![p] = NoChild]
              d == Delivery(child[p].code, proc[p].cmdline, proc[p].output)
          IN  IF proc[p].pidfd # fd \/ t = NoTask \/ coro[t] = "None"
              THEN /\ react = "return"
                   /\ Raise("AssertionError: can_read", fd)
                   /\ UNCHANGED <<tables, proc, nprocs, coro, child, resumed, scope, screenvars>>
              ELSE /\ resumed' = [resumed EXCEPT ![p] = @ + 1]
                   /\ event' = ExitEvent(fd, p, t, d, IF react = "await" THEN nprocs + 1 ELSE 0)
                   /\ CASE react = "return" ->
                             /\ coro' = [coro EXCEPT ![t] = "None"]
                             /\ proc' = pr1
                             /\ child' = ch1
                             /\ pidfd_to_process' = un[1]
                             /\ readfd_to_process' = un[2]
                             /\ writefd_to_process' = un[3]
                             /\ UNCHANGED <<nprocs, rootvars>>
                        [] react = "raise" ->
                             /\ coro' = [coro EXCEPT ![t] = "dead"]
                             /\ proc' = pr1
                             /\ child' = ch1
                             /\ pidfd_to_process' = un[1]
                             /\ readfd_to_process' = un[2]
                             /\ writefd_to_process' = un[3]
                             /\ rootpc' = "throw"
                             /\ raised' = "TaskError"
                             /\ UNCHANGED <<nprocs, fut, result, first, ncaught>>
                        [] react = "await" ->
                             /\ nprocs < scope.procs
                             /\ LET q == nprocs + 1
                                    r == [NewProcess(pr1, CmdOf(q), input) EXCEPT !.task = t]
                                    m == Mount(un, q, r)
                                IN  /\ proc' = [pr1 EXCEPT ![q] = r]
                                    /\ child' = [ch1 EXCEPT ![q] = NewChild(input)]
                                    /\ nprocs' = q
                                    /\ pidfd_to_process' = m[1]
                                    /\ readfd_to_process' = m[2]
                                    /\ writefd_to_process' = m[3]
                             /\ UNCHANGED <<coro, rootvars>>
    /\ UNCHANGED <<ntasks, keys, typed, stdin_eof, scope, screenvars>>

\* can_write that keeps the whole input pending after a write
RestKeepsAll(data, w) == data

\* rest = proc.input[w:], what is left to write after w bytes were accepted
Rest(data, w) == Drop(data, w)

\* can_write(fd): lines 111-126; os.write accepts w bytes
CanWrite(w) ==
    /\ rootpc = "resolve"
    /\ fut.kind = "key"
    /\ ~KeyReady
    /\ ReadFds = <<>>
    /\ ReadyWrite # <<>>
    /\ LET fd == Head(ReadyWrite).fd
           p == Lookup(writefd_to_process, fd)
           data == IF proc[p].input = None THEN <<>> ELSE proc[p].input[1]
           room == PipeCap - child[p].inFill
       IN  IF proc[p].writefd # fd \/ proc[p].input = None
           THEN /\ w = 0
                /\ Raise("AssertionError: can_write", fd)
                /\ UNCHANGED <<tables, proc, child>>
           ELSE IF data = <<>>
           THEN /\ w = 0
                /\ Raise("AssertionError: w > 0", fd)
                /\ UNCHANGED <<tables, proc, child>>
           ELSE /\ w \in 1..Min(Len(data), room)
                /\ child' = [child EXCEPT ![p].inFill = @ + w,
                                          ![p].received = @ \o SubSeq(data, 1, w)]
                /\ LET rest == Rest(data, w) IN
                   IF rest = <<>>
                   THEN /\ proc' = [proc EXCEPT ![p].input = None, ![p].writefd = NoFd]
                        /\ writefd_to_process' = Del(writefd_to_process, fd)
                   ELSE /\ proc' = [proc EXCEPT ![p].input = Some(rest)]
                        /\ UNCHANGED writefd_to_process
                /\ event' = Event("write", fd)
                /\ UNCHANGED <<pidfd_to_process, readfd_to_process, rootvars>>
    /\ UNCHANGED <<nprocs, coro, ntasks, keys, typed, stdin_eof, resumed, scope, screenvars>>

(***************************************************************************)
(* The specification of the scheduler.                                     *)
(***************************************************************************)
Reacts == {"return", "raise", "await"}

Environment ==
    \/ \E p \in Procs : ChildWrite(p)
    \/ \E p \in Procs : ChildCloseStdout(p)
    \/ \E p \in Procs : ChildRead(p)
    \/ \E p \in Procs, code \in ExitCodes : ChildExit(p, code)
    \/ UserTypes
    \/ UserCloses

Root ==
    \/ \E spawn \in BOOLEAN, input \in Inputs : CreateTask(spawn, input)
    \/ RootAwaitKeystroke
    \/ \E t \in Tasks : RootAwaitTask(t)
    \/ RootReturn
    \/ RootUncaught
    \/ RootCatch
    \/ RootYieldsInHandler
    \/ RootReturnsInHandler

Scheduler ==
    \/ ResolveTaskDone
    \/ ResolveTaskPending
    \/ ResolveKeystroke
    \/ CanReadOutput
    \/ \E react \in Reacts, input \in Inputs : CanReadExit(react, input)
    \/ \E w \in 0..MaxInput : CanWrite(w)

Next == Environment \/ Root \/ Scheduler

Spec == Init /\ [][Next]_vars

\* The scheduler under fair scheduling, for one task with all the input: the
\* loop of resolve and the root computation keep running, and a child that
\* has input to read reads it
FairSpec ==
    /\ InitDeep
    /\ [][Next]_vars
    /\ WF_vars(Scheduler)
    /\ WF_vars(Root)
    /\ WF_vars(\E p \in Procs : ChildRead(p))

(***************************************************************************)
(* The calls on a MiniScreen; the terminal is fed what each call writes.   *)
(***************************************************************************)
\* The state after a method call left d
Called(d) ==
    /\ screen_lines' = d.self.screen_lines
    /\ linebuf' = d.self.linebuf
    /\ cursor' = d.self.cursor
    /\ term' = Feed(term, d.out)
    /\ out' = d.out
    /\ returned' = d.ret

\* The scenarios of the screen: a session of start, set_line and
\* handle_keystroke calls with buffers of any length, and a session of all the
\* calls, with windows of any length and shorter buffers, on a terminal that
\* has a row more; set is the longest string given to set_line, len the
\* longest buffer typed
EditScope == [calls |-> "edit", len |-> MaxLen, set |-> MaxLen - 1, lines |-> 0,
              rows |-> Height - 1]
WindowScope == [calls |-> "all", len |-> MaxLen - 1, set |-> MaxLen - 1,
                lines |-> MaxLines, rows |-> Height]

\* The scenario of word erasure: the user types a buffer a character longer,
\* moves left in it and erases words; the application only starts the screen
WordScope == [calls |-> "word", len |-> MaxLen + 1, set |-> 0, lines |-> 0,
              rows |-> Height - 1]
WordKeys == Chars \cup {"ALT-backspace", "CTRL-W", "leftarrow"}

Start ==
    /\ ~started
    /\ started' = TRUE
    /\ Called(start(TheScreen))
    /\ tty' = setraw(tty)
    /\ UNCHANGED <<session, schedvars, decoder>>

SetLine(s, c) ==
    /\ Len(s) <= scope.set
    /\ Called(set_line(TheScreen, s, c))
    /\ UNCHANGED <<started, tty, session, schedvars, decoder>>

PrintLine(line) ==
    /\ scope.calls = "all"
    /\ Called(print_line(TheScreen, line))
    /\ UNCHANGED <<started, tty, session, schedvars, decoder>>

SetWindow(lines) ==
    /\ scope.calls = "all"
    /\ Len(lines) <= scope.lines
    /\ Called(set_window(TheScreen, lines))
    /\ UNCHANGED <<started, tty, session, schedvars, decoder>>

\* handle_keystroke(s); the user types no more characters than the scenario has
HandleKeystroke(s) ==
    /\ s \in Chars => Len(linebuf) < scope.len
    /\ scope.calls = "word" => s \in WordKeys
    /\ Called(handle_keystroke(TheScreen, s))
    /\ UNCHANGED <<started, tty, session, schedvars, decoder>>

\* The lines the application prints, and the windows it sets
Lines == {<<"a">>, <<"-", "a">>}
Windows == UNION {[1..k -> Lines] : k \in 0..MaxLines}

\* The cursor arguments of set_line: None, or below, inside and past the string
Cursors == {None} \cup {Some(c) : c \in -1..(MaxLen + 1)}

ScreenNext ==
    \/ Start
    \/ \E s \in Strings(MaxLen), c \in Cursors : SetLine(s, c)
    \/ \E line \in Lines : PrintLine(line)
    \/ \E lines \in Windows : SetWindow(lines)
    \/ \E s \in Tokens : HandleKeystroke(s)

\* A screen is constructed before a terminal whose cursor is on its first or
\* on its last row
InitScreen ==
    \E sc \in {EditScope, WindowScope, WordScope} : \E r \in {1, sc.rows} :
        /\ InitScope(sc) /\ ScreenInit(sc.rows, r) /\ SessionInit("cooked")
        /\ decoder = NoCall

ScreenSpec == InitScreen /\ [][ScreenNext]_vars

(***************************************************************************)
(* A session: with MiniScreen() as screen: for s in screen: ...            *)
(***************************************************************************)
MaxMinimize == 2

\* The scenario of a session: the user types a character and the keys that
\* end the loop
SessionScope == [calls |-> "session", len |-> 1, set |-> 0, lines |-> 0,
                 rows |-> Height - 1]

\* __enter__: start()
Enter ==
    /\ session.pc = "new"
    /\ Called(start(TheScreen))
    /\ started' = TRUE
    /\ tty' = setraw(tty)
    /\ session' = [session EXCEPT !.pc = "loop", !.entered = tty.attrs,
                                  !.entries = @ + 1]
    /\ UNCHANGED <<schedvars, decoder>>

\* One round of the for loop: __next__ returns a value to the loop body, ends
\* the loop with StopIteration, or raises KeyboardInterrupt into the with block
Iterate(s) ==
    /\ session.pc = "loop"
    /\ s \in Chars => Len(linebuf) < scope.len
    /\ LET d == next(TheScreen, s)
       IN  /\ Called(d)
           /\ session' =
                 IF d.ret = "StopIteration"
                 THEN [session EXCEPT !.pc = "done", !.path = "CTRL-D"]
                 ELSE IF d.ret = "KeyboardInterrupt"
                 THEN [session EXCEPT !.pc = "raising", !.path = "CTRL-C"]
                 ELSE session
    /\ UNCHANGED <<started, tty, schedvars, decoder>>

\* The body of the with block raises, in the loop or after it
BodyRaises ==
    /\ session.pc \in {"loop", "done"}
    /\ session' = [session EXCEPT !.pc = "raising", !.path = "exception"]
    /\ UNCHANGED <<screen_lines, linebuf, cursor, started, term, out, returned, tty,
                   schedvars, decoder>>

\* with screen.minimize(): cleanup() before the block
Minimize ==
    /\ session.pc \in {"loop", "done"}
    /\ session.entries <= MaxMinimize
    /\ LET d == cleanup(TheScreen, tty)
       IN  /\ Called(d)
           /\ tty' = d.tty
           /\ session' = [session EXCEPT !.pc = "minimized", !.back = session.pc,
                                         !.restores = @ + 1]
    /\ UNCHANGED <<started, schedvars, decoder>>

\* While the program is minimized and stopped, the user changes the terminal's
\* attributes from the shell
Stty(a) ==
    /\ session.pc = "minimized"
    /\ a # tty.attrs
    /\ tty' = [tty EXCEPT !.attrs = a]
    /\ UNCHANGED <<screen_lines, linebuf, cursor, started, term, out, returned,
                   session, schedvars, decoder>>

\* The block of minimize() ends or raises: finally start(), and the exception
\* goes on into the with block
Resume(raises) ==
    /\ session.pc = "minimized"
    /\ Called(start(TheScreen))
    /\ tty' = setraw(tty)
    /\ session' = [session EXCEPT
                      !.pc = IF raises THEN "raising" ELSE session.back,
                      !.path = IF raises THEN "minimize exception" ELSE @,
                      !.entered = tty.attrs,
                      !.entries = @ + 1]
    /\ UNCHANGED <<started, schedvars, decoder>>

\* __exit__: cleanup(), when the body ends, after the loop or by leaving it,
\* or when an exception leaves the with block
Exit ==
    /\ session.pc \in {"loop", "done", "raising"}
    /\ LET d == cleanup(TheScreen, tty)
       IN  /\ Called(d)
           /\ tty' = d.tty
           /\ session' = [session EXCEPT
                             !.pc = "left",
                             !.path = IF session.pc = "loop" THEN "normal" ELSE @,
                             !.restores = @ + 1]
    /\ UNCHANGED <<started, schedvars, decoder>>

SessionNext ==
    \/ Enter
    \/ \E s \in Tokens \cup {"CTRL-D", "CTRL-C", ""} : Iterate(s)
    \/ BodyRaises
    \/ Minimize
    \/ \E a \in Modes : Stty(a)
    \/ \E raises \in BOOLEAN : Resume(raises)
    \/ Exit

InitSession ==
    \E a \in Modes : \E r \in {1, SessionScope.rows} :
        /\ InitScope(SessionScope) /\ ScreenInit(SessionScope.rows, r)
        /\ SessionInit(a)
        /\ decoder = NoCall

SessionSpec == InitSession /\ [][SessionNext]_vars


(***************************************************************************)
(* Calls of the keystroke decoder.                                         *)
(***************************************************************************)
\* The first characters: ASCII, and characters below, at and past U+00FF
FirstChars == 0..127 \cup {128, 255, 256}

\* The characters that follow: CTRL-A, ESC, a digit, ";", "A", "O", "P", "[",
\* "~", DEL, U+00E9 and U+0100
RestChars == {1, 27, 49, 59, 65, 79, 80, 91, 126, 127, 233, 256}

\* A call of parse_one_keystroke with first_char read and rest to come: any
\* characters, or after ESC a sequence of csicodes or altocodes and any
\* characters
InitDecode ==
    /\ InitScope(EditScope) /\ ScreenInit(EditScope.rows, 1) /\ SessionInit("cooked")
    /\ \E c \in FirstChars : \E n \in 0..MaxRest : \E tail \in [1..n -> RestChars] :
          \E head \in {<<>>} \cup (IF c = 27
                                    THEN {<<91>> \o e[1] : e \in csicodes}
                                             \cup {<<79>> \o e[1] : e \in altocodes}
                                    ELSE {}) :
              decoder = [NoCall EXCEPT !.first = c, !.rest = head \o tail,
                                       !.left = head \o tail]

\* The call returns or raises; left is the input get_next_char has not taken
ParseOneKeystroke ==
    /\ ~decoder.done
    /\ decoder.first # -1
    /\ LET d == parse_one_keystroke(decoder.first, decoder.rest)
       IN  decoder' = [decoder EXCEPT !.done = TRUE, !.key = d.key, !.calls = d.calls,
                                      !.left = Drop(decoder.rest, d.calls)]
    /\ UNCHANGED <<schedvars, screen_lines, linebuf, cursor, started, term, out,
                   returned, tty, session>>

DecodeSpec == InitDecode /\ [][ParseOneKeystroke]_vars

\* A call of parse_one_character with first_byte read and rest to come: ASCII,
\* continuation bytes of each range, start bytes of each length and with each
\* range of the second byte, and bytes that start nothing
InitUtf8 ==
    /\ InitScope(EditScope) /\ ScreenInit(EditScope.rows, 1) /\ SessionInit("cooked")
    /\ LET bytes == {65, 128, 144, 160, 191, 193, 195, 224, 237, 240, 244, 245}
       IN  \E c \in bytes : \E n \in 0..MaxMore : \E rest \in [1..n -> bytes] :
               decoder = [NoCall EXCEPT !.first = c, !.rest = rest, !.left = rest]

\* The call returns or raises; left is the input get_next_byte has not taken
ParseOneCharacter ==
    /\ ~decoder.done
    /\ decoder.first # -1
    /\ LET d == parse_one_character(decoder.first, decoder.rest)
       IN  decoder' = [decoder EXCEPT !.done = TRUE, !.key = d.key, !.calls = d.calls,
                                      !.left = Drop(decoder.rest, d.calls)]
    /\ UNCHANGED <<schedvars, screen_lines, linebuf, cursor, started, term, out,
                   returned, tty, session>>

Utf8Spec == InitUtf8 /\ [][ParseOneCharacter]_vars

(***************************************************************************)
(* Properties of the scheduler.                                            *)
(***************************************************************************)
\* Process p is mounted in the EventLoop
Mounted(p) == proc[p].task # NoTask

\* The processes a table maps to
Range(tbl) == {tbl[i].proc : i \in 1..Len(tbl)}

\* C1: with two tasks each awaiting a child, whatever the order of the exits,
\* the exit handler resumes each owning task once per process: a process is
\* resumed for at most once, only after its child exited, for the task that
\* owned it, and a process still registered for exit has not been resumed.
C1_ResumedOncePerExit ==
    /\ \A p \in Procs :
          /\ resumed[p] <= 1
          /\ resumed[p] = 1 => (p <= nprocs /\ ~Mounted(p))
          /\ p \in Range(pidfd_to_process) => resumed[p] = 0
          /\ (p <= nprocs /\ Mounted(p)) => p \in Range(pidfd_to_process)
    /\ event.kind = "exit" =>
          /\ event.exited
          /\ resumed[event.proc] = 1
          /\ event.task # NoTask
          /\ coro[event.task] # "unborn"

\* C1 witness: process 2 of task 2 exited and was handled first, then process
\* 1 of task 1, both mounted at the same time.
C1_Witness ==
    /\ ntasks = 2
    /\ event.kind = "exit" /\ event.proc = 1 /\ event.task = 1
    /\ resumed[1] = 1 /\ resumed[2] = 1

\* C2: when a child's exit is handled, the output delivered to its task is
\* every byte the child wrote to its stdout.
C2_DeliveredIsAllOutput ==
    event.kind = "exit" => event.out = event.wrote

\* C4: on exit readiness the task is resumed with the captured output when
\* the exit code is 0 and with a failure carrying the exit code, the argument
\* vector and the captured output otherwise; a process the resumed task awaits
\* next is mounted for that task with its exit and output descriptors
\* registered, and its input descriptor registered exactly when input was
\* supplied.
C4_DeliveryAndRemount ==
    event.kind = "exit" =>
        /\ event.exitcode = 0 =>
              (event.how = "send" /\ event.out = event.output)
        /\ event.exitcode # 0 =>
              /\ event.how = "throw"
              /\ event.code = event.exitcode
              /\ event.args = event.cmdline
              /\ event.out = event.output
        /\ event.mounted # 0 =>
              LET q == event.mounted IN
              /\ proc[q].task = event.task
              /\ proc[q].pidfd \in Keys(pidfd_to_process)
              /\ Lookup(pidfd_to_process, proc[q].pidfd) = q
              /\ proc[q].readfd \in Keys(readfd_to_process)
              /\ Lookup(readfd_to_process, proc[q].readfd) = q
              /\ (proc[q].supplied # None) <=>
                    (\E i \in 1..Len(writefd_to_process) : writefd_to_process[i].proc = q)
              /\ proc[q].supplied # None =>
                    /\ proc[q].writefd \in Keys(writefd_to_process)
                    /\ Lookup(writefd_to_process, proc[q].writefd) = q

\* C4 witness: a task caught the failure of its process and awaited another
\* process with input, which is now mounted.
C4_Witness ==
    /\ event.kind = "exit"
    /\ event.how = "throw"
    /\ event.out # <<>>
    /\ event.mounted # 0
    /\ proc[event.mounted].supplied # None
    /\ proc[event.mounted].task = event.task

\* A pass of the loop of resolve that reaches select and acts
PollingPass ==
    /\ rootpc = "resolve"
    /\ ~(fut.kind = "task" /\ coro[fut.task] = "None")
    /\ <<tables, proc, rootpc, keys>>' # <<tables, proc, rootpc, keys>>
    /\ keys' <= keys

\* The descriptors that are ready for a process
ReadyProcessFds == Keys(ReadyPid) \cup Keys(ReadyRead) \cup Keys(ReadyWrite)

\* C5: each pass of the loop handles one readiness event: when the awaited
\* keystroke descriptor is ready the keystroke is returned and the tables and
\* the Process records are unchanged; otherwise exactly one ready process
\* descriptor is serviced.
C5_OneEventPerPass ==
    [][PollingPass =>
         IF fut.kind = "key" /\ KeyReady
         THEN /\ event'.kind = "keystroke"
              /\ rootpc' = "running" /\ result' = "key"
              /\ UNCHANGED <<tables, proc, child>>
         ELSE /\ event'.kind \in {"read", "exit", "write"}
              /\ event'.fd \in ReadyProcessFds]_vars

\* C6: resolve of a Task is left only by returning None (no value) to the
\* root computation, once the task has completed; until then the loop keeps
\* servicing process descriptors.
C6_AwaitTaskReturnsNone ==
    [][(rootpc = "resolve" /\ fut.kind = "task") =>
         \/ rootpc' = "resolve"
         \/ (rootpc' = "running" /\ result' = "None" /\ coro[fut.task] = "None")]_vars

\* C7: when run_coroutine returns, no process future is still mounted: every
\* one has been driven to completion or failure.
C7_NothingMountedAtReturn ==
    rootpc = "done" =>
        /\ pidfd_to_process = <<>>
        /\ readfd_to_process = <<>>
        /\ writefd_to_process = <<>>
        /\ \A p \in Procs : ~Mounted(p)

\* No descriptor is a key of a table twice
UniqueKeys(tbl) == \A i, j \in 1..Len(tbl) : tbl[i].fd = tbl[j].fd => i = j

\* C8: no descriptor is a key of more than one table; every entry of a table
\* maps to a mounted process whose field for that table is that descriptor,
\* which is open and belongs to no other process; the assertions of can_read
\* never fail.
C8_TablesConsistent ==
    /\ Keys(pidfd_to_process) \cap Keys(readfd_to_process) = {}
    /\ Keys(pidfd_to_process) \cap Keys(writefd_to_process) = {}
    /\ Keys(readfd_to_process) \cap Keys(writefd_to_process) = {}
    /\ UniqueKeys(pidfd_to_process) /\ UniqueKeys(readfd_to_process)
    /\ UniqueKeys(writefd_to_process)
    /\ \A i \in 1..Len(pidfd_to_process) :
          LET e == pidfd_to_process[i] IN
          e.fd \in Fds /\ proc[e.proc].pidfd = e.fd /\ Mounted(e.proc)
    /\ \A i \in 1..Len(readfd_to_process) :
          LET e == readfd_to_process[i] IN
          e.fd \in Fds /\ proc[e.proc].readfd = e.fd /\ Mounted(e.proc)
    /\ \A i \in 1..Len(writefd_to_process) :
          LET e == writefd_to_process[i] IN
          e.fd \in Fds /\ proc[e.proc].writefd = e.fd /\ Mounted(e.proc)
    /\ \A p, q \in Procs :
          p # q => {proc[p].pidfd, proc[p].readfd, proc[p].writefd}
                   \cap {proc[q].pidfd, proc[q].readfd, proc[q].writefd} \subseteq {NoFd}
    /\ raised # "AssertionError: can_read"

\* C8 witness: process 1 is still registered for exit while process 2,
\* spawned after a descriptor of process 1 was closed, is registered under
\* that descriptor number.
C8_Witness ==
    /\ Mounted(1) /\ Mounted(2)
    /\ proc[1].pidfd \in Keys(pidfd_to_process)
    /\ FirstFd \in {proc[2].readfd, proc[2].writefd, proc[2].pidfd}
    /\ FirstFd \in Keys(pidfd_to_process) \cup Keys(readfd_to_process)
                   \cup Keys(writefd_to_process)

\* The input bytes of process p that are still to be written
Remaining(p) == IF proc[p].input = None THEN <<>> ELSE proc[p].input[1]

\* Process p was spawned with input bytes and its child is running
Fed(p) == Mounted(p) /\ proc[p].supplied # None /\ child[p].alive

\* Every input byte of process p has been accepted by the pipe
AllWritten(p) ==
    IF proc[p].supplied = None THEN child[p].received = <<>>
    ELSE child[p].received = proc[p].supplied[1]

\* The bytes written so far followed by the pending ones are the input that
\* was supplied, and the input descriptor is registered until the last byte
\* has been accepted
C3_InOrderNoDuplicates ==
    \A p \in Procs :
        Fed(p) =>
            /\ child[p].received \o Remaining(p) = proc[p].supplied[1]
            /\ proc[p].writefd = NoFd => AllWritten(p)
            /\ proc[p].writefd # NoFd =>
                   /\ Lookup(writefd_to_process, proc[p].writefd) = p
                   /\ proc[p].input # None

C9_CursorInBuffer == 0 <= cursor /\ cursor <= Len(linebuf)

\* C9 witness: set_line or a keystroke has left the cursor at the end of a
\* buffer of full length
C9_Witness == started /\ Len(linebuf) = MaxLen /\ cursor = MaxLen

\* C10: on a started screen, after any sequence of handle_keystroke and
\* set_line calls the terminal's input row, the row of its cursor, shows the
\* input buffer and the terminal's cursor column is the cursor offset.
C10_TerminalInSync ==
    [][(started /\ scope.calls = "edit"
                /\ \/ \E s \in Tokens : HandleKeystroke(s)
                   \/ \E s \in Strings(MaxLen), c \in Cursors : SetLine(s, c))
        => (term'.rows[term'.r] = linebuf' /\ term'.c = cursor')]_vars

\* How many units of output are the sequence op
IsOp(k, op) == k.op = op
Count(output, op) == Cardinality({j \in 1..Len(output) : IsOp(output[j], op)})

\* The text units of an output, in order
IsText(k) == IsOp(k, "text")
Texts(output) == SelectSeq(output, IsText)

\* What set_window(lines) writes before it redraws the input line
WindowOutput(self, lines) ==
    LET o == set_window(self, lines).out
        redraw == 3 + (IF self.cursor # Len(self.linebuf) THEN 1 ELSE 0)
    IN  Take(o, Len(o) - redraw)

\* lines is the mirror followed by new trailing lines
Extends(lines) ==
    /\ Len(screen_lines) < Len(lines)
    /\ Take(lines, Len(screen_lines)) = screen_lines

\* C11: set_window with a list that extends the mirror by k new trailing
\* lines writes exactly k insert-line sequences, each followed by the text of
\* one new line, and neither erases nor rewrites an unchanged existing line.
C11_ExtendDrawsOnlyNewLines ==
    [][\A L \in Windows :
         (SetWindow(L) /\ Extends(L)) =>
             LET w == WindowOutput(TheScreen, L)
                 prior == Len(screen_lines)
                 k == Len(L) - prior
             IN  /\ Count(w, "IL") = k
                 /\ \A j \in 1..Len(w) :
                       IsOp(w[j], "IL") => (j < Len(w) /\ IsText(w[j + 1]))
                 /\ Texts(w) = [i \in 1..k |-> Text(L[prior + i])]
                 /\ Count(w, "EL") = 0]_vars

\* C12: whatever the mirror was, after set_window(L) the mirror is L; the
\* call writes max(0, len(L) - prior length) insert-line sequences, and one
\* delete-lines sequence, of count k, exactly when L is k > 0 lines shorter
\* than the mirror was; the input buffer and the cursor offset are unchanged.
C12_WindowReconciled ==
    [][\A L \in Windows :
         SetWindow(L) =>
             LET prior == Len(screen_lines)
             IN  /\ screen_lines' = L
                 /\ Count(out', "IL") = Max(0, Len(L) - prior)
                 /\ Count(out', "DL") = (IF Len(L) < prior THEN 1 ELSE 0)
                 /\ Len(L) < prior =>
                       \E j \in 1..Len(out') : out'[j] = Esc("DL", prior - Len(L))
                 /\ linebuf' = linebuf /\ cursor' = cursor]_vars

\* C12 witness: set_window has cut the mirror to one line and written one
\* delete-lines sequence, with a buffer and a cursor inside it to preserve
C12_Witness ==
    /\ Len(screen_lines) = 1
    /\ Count(out, "DL") = 1
    /\ linebuf # <<>> /\ cursor = 0

\* The terminal's cursor row shows the input buffer, with the terminal's cursor
\* at the column of the cursor offset
InputLineShown(t, buf, cur) == t.rows[t.r] = buf /\ t.c = cur

\* C13: print_line(line), called when the terminal shows the input line,
\* leaves the input buffer and the cursor offset unchanged, puts line in the
\* row above the window, and leaves the terminal's cursor on a row that shows
\* the buffer, at the column of the cursor offset.
C13_PrintLineKeepsInputLine ==
    [][\A line \in Lines :
         (started /\ InputLineShown(term, linebuf, cursor) /\ PrintLine(line)) =>
             LET above == term'.r - Len(screen_lines) - 1
             IN  /\ linebuf' = linebuf /\ cursor' = cursor
                 /\ screen_lines' = screen_lines
                 /\ above >= 1 /\ term'.rows[above] = line
                 /\ InputLineShown(term', linebuf, cursor)]_vars

\* C14: handle_keystroke edits the buffer as a string editor does: a
\* single-character token is inserted at the cursor and the cursor advances by
\* one; backspace with the cursor at c > 0 removes the character at index
\* c - 1 and moves the cursor to c - 1, and at 0 changes and writes nothing;
\* leftarrow and rightarrow move the cursor by one within [0, len(buffer)] and
\* leave the buffer.  Inserted is the buffer with ch put before index i (from
\* 0) and Removed the buffer without the character at index i, position by
\* position.
C14_EditsLikeAnEditor ==
    [][LET Inserted(b, i, ch) ==
               [j \in 1..(Len(b) + 1) |->
                   IF j <= i THEN b[j] ELSE IF j = i + 1 THEN ch ELSE b[j - 1]]
           Removed(b, i) == [j \in 1..(Len(b) - 1) |-> IF j <= i THEN b[j] ELSE b[j + 1]]
       IN
       \A s \in Chars \cup {"backspace", "leftarrow", "rightarrow"} :
         HandleKeystroke(s) =>
             CASE s \in Chars ->
                    /\ linebuf' = Inserted(linebuf, cursor, s)
                    /\ cursor' = cursor + 1
               [] s = "backspace" ->
                    IF cursor > 0
                    THEN linebuf' = Removed(linebuf, cursor - 1) /\ cursor' = cursor - 1
                    ELSE linebuf' = linebuf /\ cursor' = cursor /\ out' = <<>>
               [] s = "leftarrow" ->
                    linebuf' = linebuf /\ cursor' = Max(0, cursor - 1)
               [] s = "rightarrow" ->
                    linebuf' = linebuf /\ cursor' = Min(Len(linebuf), cursor + 1)]_vars

\* C14 witness: two characters typed, leftarrow, then backspace has removed
\* the first and left the second with the cursor at 0
C14_Witness ==
    /\ linebuf = <<"-">> /\ cursor = 0
    /\ out = <<Ctl("BS"), Esc("DCH", 1)>>
    /\ returned = "erase"
    /\ term.rows[term.r] = <<"-">>

\* C15: ALT-backspace removes the maximal run of non-alphanumeric characters
\* left of the cursor and the maximal run of alphanumeric characters before
\* it, CTRL-W the maximal run of whitespace and the maximal run of
\* non-whitespace before it; the text before the span and the text at and
\* after the cursor are kept, and the cursor lands at the start of the span.
\* NearRun is the test of the run next to the cursor; IsSpan says that
\* buf[i..cur-1] is the maximal run of the near run preceded by the maximal
\* run of the other characters, the two meeting at m.
C15_WordEraseSpan ==
    [][LET NearRun(ch, s) == IF s = "ALT-backspace" THEN ~isalnum(ch) ELSE isspace(ch)
           IsSpan(buf, cur, i, s) ==
               \E m \in i..cur :
                   /\ \A j \in (m + 1)..cur : NearRun(buf[j], s)
                   /\ m > 0 => ~NearRun(buf[m], s)
                   /\ \A j \in (i + 1)..m : ~NearRun(buf[j], s)
                   /\ i > 0 => NearRun(buf[i], s)
       IN
       \A s \in {"ALT-backspace", "CTRL-W"} :
         HandleKeystroke(s) =>
             /\ cursor' \in 0..cursor
             /\ Take(linebuf', cursor') = Take(linebuf, cursor')
             /\ Drop(linebuf', cursor') = Drop(linebuf, cursor)
             /\ Len(linebuf') = Len(linebuf) - (cursor - cursor')
             /\ IsSpan(linebuf, cursor, cursor', s)]_vars

\* C15 witness: a word, a blank and a word with the cursor at the end have
\* become the word and the blank, the cursor after the blank
C15_Witness ==
    /\ scope.len = MaxLen + 1
    /\ linebuf = <<"a", " ">> /\ cursor = 2
    /\ out = <<Esc("CUB", 1), Esc("DCH", 1)>>
    /\ returned = "erase"

\* C16: handle_keystroke("return") and handle_keystroke("newline") finalize the
\* buffer into the scrollback: the mirror gains one line equal to the previous
\* buffer, so that its line count is still the number of lines written above
\* the input line, and the buffer is cleared with the cursor at 0.
C16_ReturnAppendsToMirror ==
    [][\A s \in {"return", "newline"} :
         (started /\ HandleKeystroke(s)) =>
             /\ Texts(out') = <<Text(linebuf)>>
             /\ screen_lines' = Append(screen_lines, linebuf)
             /\ linebuf' = <<>>
             /\ cursor' = 0]_vars

\* C17: iterating ends normally exactly when CTRL-D is read and raises
\* KeyboardInterrupt, which is not the normal end, exactly when CTRL-C is read;
\* in both cases the screen model is as it was and nothing is written; every
\* other token is passed to handle_keystroke, and the loop gets its tag, or
\* the token itself when handle_keystroke has none.
C17_IterationEndsOnCtrlD ==
    [][\A s \in Tokens \cup {"CTRL-D", "CTRL-C"} :
         Iterate(s) =>
             /\ (session'.pc = "done") = (s = "CTRL-D")
             /\ (returned' = "StopIteration") = (s = "CTRL-D")
             /\ (session'.pc = "raising") = (s = "CTRL-C")
             /\ (returned' = "KeyboardInterrupt") = (s = "CTRL-C")
             /\ IF s \in {"CTRL-D", "CTRL-C"}
                THEN /\ out' = <<>>
                     /\ UNCHANGED <<screen_lines, linebuf, cursor, term>>
                ELSE LET d == handle_keystroke(TheScreen, s)
                     IN  /\ <<screen_lines', linebuf', cursor'>>
                              = <<d.self.screen_lines, d.self.linebuf, d.self.cursor>>
                         /\ out' = d.out
                         /\ returned' = (IF d.ret = "None" THEN s ELSE d.ret)
                         /\ returned' \in {"newline", "erase", "input", "arrow", s}
                         /\ session'.pc = "loop"]_vars

\* C17 witness: CTRL-D read after a character was typed has ended the loop
C17_Witness ==
    /\ session.pc = "done"
    /\ returned = "StopIteration"
    /\ out = <<>>
    /\ linebuf = <<"a">>

\* C18: entries into interactive mode (raw input, autowrap off, bracketed
\* paste on) and restores (the attributes saved at the entry, autowrap on,
\* bracketed paste off) strictly alternate, beginning with an entry, and when
\* control has left the session, by the normal end, CTRL-D, CTRL-C, an
\* exception of the body or an exception in a minimize() block, every entry
\* has had its restore.
C18_EveryEntryRestored ==
    [][/\ session'.restores <= session'.entries
       /\ session'.entries <= session'.restores + 1
       /\ session'.entries # session.entries =>
             /\ session.entries = session.restores
             /\ tty'.attrs = "raw" /\ ~term'.wrap /\ term'.paste
       /\ session'.restores # session.restores =>
             /\ session.entries = session.restores + 1
             /\ tty'.attrs = session.entered /\ term'.wrap /\ ~term'.paste
             /\ returned' = "None"
       /\ session'.pc = "left" =>
             /\ session'.entries = session'.restores
             /\ session'.entries >= 1
             /\ session'.path \in {"normal", "CTRL-D", "CTRL-C", "exception",
                                   "minimize exception"}
             /\ tty'.attrs = session'.entered /\ term'.wrap /\ ~term'.paste]_vars

\* C18 witness: the session was left by an exception raised in a minimize()
\* block, after two entries and two restores, and the attributes that were not
\* the default ones are in force again
C18_Witness ==
    /\ session.pc = "left"
    /\ session.path = "minimize exception"
    /\ session.entries = 2 /\ session.restores = 2
    /\ tty = [attrs |-> "cbreak", old |-> None]
    /\ term.wrap /\ ~term.paste

\* C19: for every first character with code point >= 32 other than 127,
\* parse_one_keystroke returns the character itself and never calls
\* get_next_char, so that none of the input that follows is taken.
C19_PrintableIsItself ==
    (decoder.done /\ decoder.first >= 32 /\ decoder.first # 127) =>
        /\ decoder.key = Keystroke("char", "", decoder.first)
        /\ decoder.calls = 0
        /\ decoder.left = decoder.rest

\* C19 witness: a character past ASCII was decoded as itself with an escape
\* sequence behind it left in the input
C19_Witness ==
    /\ decoder.done
    /\ decoder.first = 128
    /\ decoder.key = Keystroke("char", "", 128)
    /\ decoder.left = <<27, 91>>

\* C20 as stated: each of the 26 code points 0x01 to 0x1A decodes to "CTRL-"
\* followed by the letter of its number.
C20_EveryC0IsCtrlLetter ==
    LET letters == <<"A", "B", "C", "D", "E", "F", "G", "H", "I", "J", "K", "L", "M",
                     "N", "O", "P", "Q", "R", "S", "T", "U", "V", "W", "X", "Y", "Z">>
    IN  (decoder.done /\ decoder.first \in 1..26) =>
            decoder.key = Keystroke("name", "CTRL-" \o letters[decoder.first], 0)

\* C20 amended: each of the code points 0x01 to 0x1A other than 0x09, 0x0A and
\* 0x0D decodes to "CTRL-" followed by the letter of its number, and those
\* three decode to "tab", "newline" and "return"; get_next_char is not called.
C20_C0IsCtrlLetterOrNamed ==
    LET letters == <<"A", "B", "C", "D", "E", "F", "G", "H", "I", "J", "K", "L", "M",
                     "N", "O", "P", "Q", "R", "S", "T", "U", "V", "W", "X", "Y", "Z">>
        o == decoder.first
    IN  (decoder.done /\ o \in 1..26) =>
            /\ decoder.key =
                 Keystroke("name",
                           CASE o = 9 -> "tab"
                             [] o = 10 -> "newline"
                             [] o = 13 -> "return"
                             [] OTHER -> "CTRL-" \o letters[o],
                           0)
            /\ decoder.calls = 0
            /\ decoder.left = decoder.rest

\* C20 witness: 0x1A was decoded as CTRL-Z with input behind it
C20_Witness ==
    /\ decoder.done
    /\ decoder.first = 26
    /\ decoder.key = Keystroke("name", "CTRL-Z", 0)
    /\ decoder.left = <<27>>

\* C21: for every key k of csicodes, ESC, "[", k and any further characters
\* decode to k's token after exactly the characters of "[" and k were fetched,
\* the further characters being left; ESC, "O" and P, Q, R or S decode to F1,
\* F2, F3 or F4.
C21_MappedSequenceDecodes ==
    (decoder.done /\ decoder.first = 27) =>
        /\ \A e \in csicodes :
              LET n == 1 + Len(e[1])
              IN  (Len(decoder.rest) >= n /\ SubSeq(decoder.rest, 1, n) = <<91>> \o e[1]) =>
                      /\ decoder.key = Keystroke("name", e[2], 0)
                      /\ decoder.calls = n
                      /\ decoder.left = Drop(decoder.rest, n)
        /\ \A i \in 1..4 :
              (Len(decoder.rest) >= 2 /\ SubSeq(decoder.rest, 1, 2) = <<79, 79 + i>>) =>
                  /\ decoder.key = Keystroke("name", <<"F1", "F2", "F3", "F4">>[i], 0)
                  /\ decoder.calls = 2
                  /\ decoder.left = Drop(decoder.rest, 2)

\* C21 witness: ESC [ 1 ; 5 A was decoded as CTRL-uparrow with a character
\* behind it left in the input
C21_Witness ==
    /\ decoder.done
    /\ decoder.first = 27
    /\ decoder.rest = <<91, 49, 59, 53, 65, 49>>
    /\ decoder.key = Keystroke("name", "CTRL-uparrow", 0)
    /\ decoder.left = <<49>>

\* C22: when get_next_char reports no input, ESC alone decodes to "escape"
\* after exactly one call of get_next_char and ESC O alone to "ALT-O" after
\* exactly two.
C22_PrefixAloneDecodes ==
    (decoder.done /\ decoder.first = 27) =>
        /\ decoder.rest = <<>> =>
              decoder.key = Keystroke("name", "escape", 0) /\ decoder.calls = 1
        /\ decoder.rest = <<79>> =>
              decoder.key = Keystroke("name", "ALT-O", 0) /\ decoder.calls = 2

\* C22 witness: ESC O with nothing behind it was decoded
C22_Witness ==
    /\ decoder.done
    /\ decoder.first = 27 /\ decoder.rest = <<79>>
    /\ decoder.key.name = "ALT-O"
    /\ decoder.calls = 2

\* C23: for ESC followed by a character other than "[" and "O": a character
\* with code point >= 32 other than 127, or above 255, gives "ALT-" and the
\* character; otherwise DEL gives "ALT-backspace" and every other character is
\* the error of an unmapped sequence.
C23_AltOfPrintable ==
    LET o == decoder.rest[1]
    IN  (decoder.done /\ decoder.first = 27 /\ decoder.rest # <<>> /\ o \notin {91, 79}) =>
            /\ decoder.calls = 1
            /\ decoder.key =
                 IF (32 <= o /\ o # 127) \/ 255 < o
                 THEN Keystroke("ALT-", "", o)
                 ELSE IF o = 127
                 THEN Keystroke("name", "ALT-backspace", 0)
                 ELSE Keystroke("raise", "NotImplementedError: esccodes", 0)

\* C24: whatever the first character and whatever get_next_char returns,
\* parse_one_keystroke returns the character, "ALT-" and a character, or a
\* token of its tables, or raises NotImplementedError naming a table, and
\* raises nothing else.
C24_OnlyTheUnmappedError ==
    decoder.done =>
        \/ decoder.key.tag \in {"char", "ALT-"}
        \/ /\ decoder.key.tag = "name"
           /\ \/ decoder.key.name \in {"escape", "ALT-O"}
              \/ \E e \in codes \cup esccodes \cup altocodes \cup csicodes :
                    decoder.key.name = e[2]
        \/ /\ decoder.key.tag = "raise"
           /\ decoder.key.name \in {"NotImplementedError: codes",
                                    "NotImplementedError: esccodes",
                                    "NotImplementedError: altocodes",
                                    "NotImplementedError: csicodes"}

\* C25: parse_one_character agrees with strict UTF-8 decoding of the shortest
\* decisive prefix of the bytes: a well-formed sequence of n bytes gives its
\* code point after exactly n - 1 calls of get_next_byte; the first byte that
\* makes the sequence ill-formed raises the decode error with no further
\* call; and the end of the bytes inside a sequence raises "unexpected end of
\* data".  Rows are the well-formed byte sequences of UTF-8, a range for each
\* byte.
C25_ShortestDecisivePrefix ==
    LET cont == <<128, 191>>
        Rows == {<<<<0, 127>>>>,
                 <<<<194, 223>>, cont>>,
                 <<<<224, 224>>, <<160, 191>>, cont>>,
                 <<<<225, 236>>, cont, cont>>,
                 <<<<237, 237>>, <<128, 159>>, cont>>,
                 <<<<238, 239>>, cont, cont>>,
                 <<<<240, 240>>, <<144, 191>>, cont, cont>>,
                 <<<<241, 243>>, cont, cont, cont>>,
                 <<<<244, 244>>, <<128, 143>>, cont, cont>>}
        s == <<decoder.first>> \o decoder.rest
        Fits(k, row) == k <= Len(row)
                            /\ \A j \in 1..k : row[j][1] <= s[j] /\ s[j] <= row[j][2]
        WellFormed(k) == \E row \in Rows : Len(row) = k /\ Fits(k, row)
        Incomplete(k) == \E row \in Rows : Len(row) > k /\ Fits(k, row)
        decisive == {k \in 1..Len(s) : ~Incomplete(k)}
        k0 == CHOOSE k \in decisive : \A j \in decisive : k <= j
        bits == <<s[1], s[1] - 192, s[1] - 224, s[1] - 240>>[k0]
        point == IF k0 = 1 THEN bits
                 ELSE IF k0 = 2 THEN bits * 64 + (s[2] - 128)
                 ELSE IF k0 = 3 THEN bits * 4096 + (s[2] - 128) * 64 + (s[3] - 128)
                 ELSE bits * 262144 + (s[2] - 128) * 4096 + (s[3] - 128) * 64
                          + (s[4] - 128)
    IN  decoder.done =>
            IF decisive = {}
            THEN /\ decoder.key
                      = Keystroke("raise", "UnicodeDecodeError: unexpected end of data", 0)
                 /\ decoder.calls = Len(s)
            ELSE /\ decoder.calls = k0 - 1
                 /\ decoder.left = Drop(decoder.rest, k0 - 1)
                 /\ IF WellFormed(k0)
                    THEN decoder.key = Keystroke("char", "", point)
                    ELSE /\ decoder.key.tag = "raise"
                         /\ decoder.key.name
                              \in {"UnicodeDecodeError: invalid start byte",
                                   "UnicodeDecodeError: invalid continuation byte"}

\* C25 witness: the three bytes of U+0800 were decoded after two calls of
\* get_next_byte, a byte behind them left in the input
C25_Witness ==
    /\ decoder.done
    /\ decoder.first = 224 /\ decoder.rest = <<160, 128, 65>>
    /\ decoder.key = Keystroke("char", "", 2048)
    /\ decoder.calls = 2
    /\ decoder.left = <<65>>

\* C26: a task whose computation raised an unhandled error on being resumed is
\* marked completed like one that returned: every task that was created and is
\* no longer running has its coro cleared, so an await of it resolves to None.
C26_RaisedTaskIsCompleted ==
    \A t \in Tasks : coro[t] \notin {"unborn", "live"} => coro[t] = "None"

\* C27: every value sent into the root coroutine is the result of resolving
\* the future it yielded last, also after an error was thrown into it and
\* caught: the root is resumed only out of a resolve that returned a value.
C27_SentValueIsFresh ==
    [][(rootpc # "running" /\ rootpc' = "running")
          => (rootpc = "resolve" /\ result' # "unbound")]_vars

\* C28: the assertion that resolve read a keystroke holds in every reachable
\* state, also once standard input has reached its end.
C28_KeystrokeAssertionHolds == raised # "AssertionError: res"

\* C29: the assertion that a write to a registered input descriptor
\* transferred at least one byte holds for every input byte string, of any
\* length, a process was given.
C29_WriteAssertionHolds == raised # "AssertionError: w > 0"

\* C30: once the reader reports the end of the input (the empty token), the
\* iteration over the screen ends.
C30_IterationEndsAtEndOfInput ==
    [][\A self \in {TheScreen} :
          (session.pc = "loop" /\ next(self, "").ret = "" /\ returned' = "")
              => session'.pc # "loop"]_vars

\* C31: every cursor-movement or delete sequence with a count that the
\* renderer writes (cursor up, down, forward, back, delete line, delete
\* character) carries a count of at least 1: an operation with nothing to move
\* or delete writes none.
C31_CountsArePositive ==
    \A j \in 1..Len(out) :
        out[j].op \in {"CUU", "CUD", "CUF", "CUB", "DL", "DCH"} => out[j].n >= 1

====
